---- MODULE Spec2Model ----
(***************************************************************************)
(* Model of the INMET climate pipeline (Bronze -> Silver -> Gold).         *)
(*                                                                         *)
(* Conventions of the model:                                               *)
(*  - a text cell is a sequence of one-character strings, so that the      *)
(*    string operations of the code (replace, zfill, concatenation,        *)
(*    strptime, numeric parsing) are computed and not assumed;             *)
(*  - a float is a record [nan, v] with v the value in thousandths; NaN    *)
(*    (pandas' absent value of a float column) compares false with         *)
(*    everything, as IEEE-754 does;                                        *)
(*  - a timestamp is a calendar record [y, mo, d, h, mi]; NaT is the       *)
(*    all-zero record;                                                     *)
(*  - a DataFrame is [columns, rows], rows a sequence of [index, cells],   *)
(*    cells a function from the frame's columns to values;                 *)
(*  - raw header names are written without accents.                        *)
(***************************************************************************)
EXTENDS Integers, Sequences, FiniteSets, TLC

VARIABLES bronze_df, silver_df, status, log,
          raw_source, bronze_store, silver_store, gold_store,
          df_silver, df_gold, last, pc, trace, runs,
          year_source, future_to_year, bronze_dataset, bronze_before,
          total_records_ingested

vars == <<bronze_df, silver_df, status, log,
          raw_source, bronze_store, silver_store, gold_store,
          df_silver, df_gold, last, pc, trace, runs,
          year_source, future_to_year, bronze_dataset, bronze_before,
          total_records_ingested>>

\* The variables of the Bronze ingestion.
bronze_vars == <<year_source, future_to_year, bronze_dataset, bronze_before,
                 total_records_ingested>>

\* The variables of the stores, of the Gold stage and of the orchestrator.
stage_vars == <<raw_source, bronze_store, silver_store, gold_store,
                df_silver, df_gold, last, pc, trace, runs>>

\* The variables of the Silver and Gold stages and of the orchestrator.
pipeline_vars == <<bronze_df, silver_df, status, log, stage_vars>>

\* Largest number of rows of an input table.
MaxRows == 2

\* Floats are held in thousandths.
Scale == 10 * 10 * 10

NaN == [nan |-> TRUE, v |-> 0]

Num(v) == [nan |-> FALSE, v |-> v]

NaT == [y |-> 0, mo |-> 0, d |-> 0, h |-> 0, mi |-> 0]

\* ------------------------------------------------------------------------
\* Text helpers (Python str / pandas .str methods)
\* ------------------------------------------------------------------------

DigitChars == {"0", "1", "2", "3", "4", "5", "6", "7", "8", "9"}

DigitVal(c) ==
    CASE c = "0" -> 0 [] c = "1" -> 1 [] c = "2" -> 2 [] c = "3" -> 3
      [] c = "4" -> 4 [] c = "5" -> 5 [] c = "6" -> 6 [] c = "7" -> 7
      [] c = "8" -> 8 [] c = "9" -> 9

AllDigits(s) == \A i \in 1..Len(s) : s[i] \in DigitChars

RECURSIVE DigitsToNat(_)
DigitsToNat(s) ==
    IF s = <<>> THEN 0
    ELSE 10 * DigitsToNat(SubSeq(s, 1, Len(s) - 1)) + DigitVal(s[Len(s)])

StartsWith(s, pat) == Len(s) >= Len(pat) /\ SubSeq(s, 1, Len(pat)) = pat

\* str.replace(pat, '', regex=False): every non-overlapping occurrence of
\* pat, scanning from the left, is removed.
RECURSIVE StrRemove(_, _)
StrRemove(s, pat) ==
    IF s = <<>> THEN <<>>
    ELSE IF StartsWith(s, pat) THEN StrRemove(SubSeq(s, Len(pat) + 1, Len(s)), pat)
    ELSE <<Head(s)>> \o StrRemove(Tail(s), pat)

\* str.zfill(width) on a text without a leading sign.
RECURSIVE ZFill(_, _)
ZFill(s, width) == IF Len(s) >= width THEN s ELSE ZFill(<<"0">> \o s, width)

\* ------------------------------------------------------------------------
\* pd.to_numeric(..., errors='coerce') on one text cell
\* ------------------------------------------------------------------------

Pow10(n) == CASE n = 0 -> 1 [] n = 1 -> 10 [] n = 2 -> 10 * 10 [] OTHER -> Scale

\* [+-]digits[.digits] is a number; a bare '.', a decimal comma, '---', or
\* the empty text is not, and becomes NaN.  Inputs carry at most three
\* fractional digits (the resolution of the model's floats).
ToNumericCell(s) ==
    LET signed == s # <<>> /\ Head(s) \in {"-", "+"}
        sign   == IF s # <<>> /\ Head(s) = "-" THEN -1 ELSE 1
        body   == IF signed THEN Tail(s) ELSE s
        dots   == {i \in 1..Len(body) : body[i] = "."}
    IN  IF dots = {}
        THEN IF body # <<>> /\ AllDigits(body)
             THEN Num(sign * DigitsToNat(body) * Scale)
             ELSE NaN
        ELSE IF Cardinality(dots) = 1
        THEN LET p  == CHOOSE i \in dots : TRUE
                 ip == SubSeq(body, 1, p - 1)
                 fp == SubSeq(body, p + 1, Len(body))
             IN  IF AllDigits(ip) /\ AllDigits(fp) /\ Len(ip) + Len(fp) >= 1
                    /\ Len(fp) <= 3
                 THEN Num(sign * (DigitsToNat(ip) * Scale
                                  + DigitsToNat(fp) * Pow10(3 - Len(fp))))
                 ELSE NaN
        ELSE NaN

\* Series.between(lo, hi): inclusive on both ends, False for NaN.
Between(x, lo, hi) == ~x.nan /\ lo <= x.v /\ x.v <= hi

\* Series < k: False for NaN.
LessThan(x, k) == ~x.nan /\ x.v < k

\* ------------------------------------------------------------------------
\* Calendar and pd.to_datetime(format='%Y/%m/%d %H%M', errors='coerce')
\* ------------------------------------------------------------------------

IsLeap(y) == (y % 4 = 0 /\ y % 100 # 0) \/ y % 400 = 0

DaysInMonth(y, mo) ==
    IF mo = 2 THEN (IF IsLeap(y) THEN 28 + 1 ELSE 28)
    ELSE IF mo \in {4, 6, 9, 11} THEN 30 ELSE 31

\* The field widths strptime's regular expression can give to %m, %d, %H
\* and %M, in the order its alternatives are tried (two digits first).
FieldWidths ==
    <<  <<2, 2, 2, 2>>, <<2, 2, 2, 1>>, <<2, 2, 1, 2>>, <<2, 2, 1, 1>>,
        <<2, 1, 2, 2>>, <<2, 1, 2, 1>>, <<2, 1, 1, 2>>, <<2, 1, 1, 1>>,
        <<1, 2, 2, 2>>, <<1, 2, 2, 1>>, <<1, 2, 1, 2>>, <<1, 2, 1, 1>>,
        <<1, 1, 2, 2>>, <<1, 1, 2, 1>>, <<1, 1, 1, 2>>, <<1, 1, 1, 1>> >>

\* The fields of s under the widths w: year, month, day, hour, minute.
FieldsOf(s, w) ==
    LET pm == 6
        pd == pm + w[1] + 1
        ph == pd + w[2] + 1
        pi == ph + w[3]
    IN  [ y  |-> SubSeq(s, 1, 4),
          mo |-> SubSeq(s, pm, pm + w[1] - 1),
          d  |-> SubSeq(s, pd, pd + w[2] - 1),
          h  |-> SubSeq(s, ph, ph + w[3] - 1),
          mi |-> SubSeq(s, pi, pi + w[4] - 1),
          sep1 |-> s[5], sep2 |-> s[pd - 1], sep3 |-> s[ph - 1] ]

\* %d also accepts a day padded with a blank (' 1').
DayFieldOk(f) ==
    \/ AllDigits(f) /\ DigitsToNat(f) \in 1..31
    \/ Len(f) = 2 /\ f[1] = " " /\ f[2] \in DigitChars \ {"0"}

DayFieldVal(f) == IF f[1] = " " THEN DigitVal(f[2]) ELSE DigitsToNat(f)

MatchesFormat(s, w) ==
    /\ Len(s) = 4 + 1 + w[1] + 1 + w[2] + 1 + w[3] + w[4]
    /\ LET f == FieldsOf(s, w)
       IN  /\ AllDigits(f.y)
           /\ f.sep1 = "/" /\ f.sep2 = "/" /\ f.sep3 = " "
           /\ AllDigits(f.mo) /\ DigitsToNat(f.mo) \in 1..12
           /\ DayFieldOk(f.d)
           /\ AllDigits(f.h) /\ DigitsToNat(f.h) \in 0..23
           /\ AllDigits(f.mi) /\ DigitsToNat(f.mi) \in 0..59

\* A text that does not match the format, or names a day its month does not
\* have, is coerced to NaT.
ToDatetime(s) ==
    LET ok == {k \in 1..Len(FieldWidths) : MatchesFormat(s, FieldWidths[k])}
    IN  IF ok = {} THEN NaT
        ELSE LET k == CHOOSE i \in ok : \A j \in ok : i <= j
                 f == FieldsOf(s, FieldWidths[k])
                 y == DigitsToNat(f.y)
                 mo == DigitsToNat(f.mo)
                 d == DayFieldVal(f.d)
             IN  IF d > DaysInMonth(y, mo) THEN NaT
                 ELSE [y |-> y, mo |-> mo, d |-> d,
                       h |-> DigitsToNat(f.h), mi |-> DigitsToNat(f.mi)]

PrevDay(t) ==
    IF t.d > 1 THEN [t EXCEPT !.d = t.d - 1]
    ELSE IF t.mo > 1
         THEN [t EXCEPT !.mo = t.mo - 1, !.d = DaysInMonth(t.y, t.mo - 1)]
         ELSE [t EXCEPT !.y = t.y - 1, !.mo = 12, !.d = 31]

\* Hours that America/Fortaleza is behind UTC (no daylight saving time in
\* the years of the model's inputs).
TARGET_TIMEZONE == 3

\* Mutant: the hour is shifted around the clock and the day is kept.
TzConvert_NoDayBorrow(t) ==
    IF t = NaT THEN NaT
    ELSE [t EXCEPT !.h = (t.h + 24 - TARGET_TIMEZONE) % 24]

\* .dt.tz_localize('UTC').dt.tz_convert(TARGET_TIMEZONE); NaT stays NaT.
TzConvert(t) ==
    IF t = NaT THEN NaT
    ELSE IF t.h >= TARGET_TIMEZONE THEN [t EXCEPT !.h = t.h - TARGET_TIMEZONE]
    ELSE [PrevDay(t) EXCEPT !.h = t.h + 24 - TARGET_TIMEZONE]

\* ------------------------------------------------------------------------
\* DataFrame helpers
\* ------------------------------------------------------------------------

\* F applied to every row, as a sequence.
MapRows(rows, F(_)) == <<>> \o [i \in 1..Len(rows) |-> F(rows[i])]

\* df[c] = value, row by row: the column is added when it is new.
SetCell(row, c, v) ==
    [row EXCEPT !.cells = (c :> v) @@ row.cells]

\* df[cols]: the frame restricted to the columns cols.
SelectColumns(df, cols) ==
    [columns |-> cols,
     rows |-> MapRows(df.rows,
                 LAMBDA r : [r EXCEPT !.cells = [k \in cols |-> r.cells[k]]])]

\* ------------------------------------------------------------------------
\* run_processing_silver.py
\* ------------------------------------------------------------------------

\* Raw header -> canonical name, in the order of the dictionary.
COLUMN_RENAME_MAP ==
    << <<"Data", "data">>,
       <<"Hora UTC", "hora_utc">>,
       <<"PRECIPITACAO TOTAL, HORARIO (mm)", "precipitacao_total_horario_mm">>,
       <<"PRESSAO ATMOSFERICA AO NIVEL DA ESTACAO, HORARIA (mB)", "pressao_atm_estacao_horaria_mb">>,
       <<"PRESSAO ATMOSFERICA MAX.NA HORA ANT. (AUT) (mB)", "pressao_atm_max_hora_ant_mb">>,
       <<"PRESSAO ATMOSFERICA MIN. NA HORA ANT. (AUT) (mB)", "pressao_atm_min_hora_ant_mb">>,
       <<"RADIACAO GLOBAL (Kj/m2)", "radiacao_global_kj_m2">>,
       <<"TEMPERATURA DO AR - BULBO SECO, HORARIA (C)", "temperatura_ar_bulbo_seco_horaria_c">>,
       <<"TEMPERATURA DO PONTO DE ORVALHO (C)", "temperatura_ponto_orvalho_c">>,
       <<"TEMPERATURA MAXIMA NA HORA ANT. (AUT) (C)", "temperatura_max_hora_ant_c">>,
       <<"TEMPERATURA MINIMA NA HORA ANT. (AUT) (C)", "temperatura_min_hora_ant_c">>,
       <<"TEMPERATURA ORVALHO MAX. NA HORA ANT. (AUT) (C)", "temperatura_orvalho_max_hora_ant_c">>,
       <<"TEMPERATURA ORVALHO MIN. NA HORA ANT. (AUT) (C)", "temperatura_orvalho_min_hora_ant_c">>,
       <<"UMIDADE REL. MAX. NA HORA ANT. (AUT) (%)", "umidade_rel_max_hora_ant_percent">>,
       <<"UMIDADE REL. MIN. NA HORA ANT. (AUT) (%)", "umidade_rel_min_hora_ant_percent">>,
       <<"UMIDADE RELATIVA DO AR, HORARIA (%)", "umidade_relativa_ar_horaria_percent">>,
       <<"VENTO, DIRECAO HORARIA (gr)", "vento_direcao_horaria_gr">>,
       <<"VENTO, RAJADA MAXIMA (m/s)", "vento_rajada_maxima_ms">>,
       <<"VENTO, VELOCIDADE HORARIA (m/s)", "vento_velocidade_horaria_ms">>,
       <<"municipio", "municipio">>,
       <<"source_file", "source_file">>,
       <<"partition_year", "partition_year">> >>

RawHeaders == {COLUMN_RENAME_MAP[i][1] : i \in 1..Len(COLUMN_RENAME_MAP)}

CanonicalNames == {COLUMN_RENAME_MAP[i][2] : i \in 1..Len(COLUMN_RENAME_MAP)}

\* The dictionary as a function of the raw header.
RenameFn ==
    [c \in RawHeaders |->
        LET i == CHOOSE k \in 1..Len(COLUMN_RENAME_MAP) : COLUMN_RENAME_MAP[k][1] = c
        IN  COLUMN_RENAME_MAP[i][2]]

\* COLUMN_RENAME_MAP.get(c, c)
RenameOf(c) == IF c \in RawHeaders THEN RenameFn[c] ELSE c

\* df.rename(columns=..., inplace=True): acts on the caller's frame.  The
\* model's inputs never hold two columns that rename to the same name.
RenameColumns(df) ==
    LET newcols == {RenameOf(c) : c \in df.columns}
        old     == [n \in newcols |-> CHOOSE c \in df.columns : RenameOf(c) = n]
    IN  [columns |-> newcols,
         rows |-> MapRows(df.rows,
                     LAMBDA r : [r EXCEPT !.cells = [n \in newcols |-> r.cells[old[n]]]])]

\* expected_cols = the canonical names that are columns of the frame
SelectExpected(df) == SelectColumns(df, df.columns \cap CanonicalNames)

HoraSuffix == <<" ", "U", "T", "C">>

\* Mutant: the end-of-day value is not rewritten.
CleanHora_NoSentinel(h) == ZFill(StrRemove(h, HoraSuffix), 4)

\* hora_utc: ' UTC' removed, zero-filled to four characters, '2400' -> '0000'
CleanHora(h) ==
    LET z == ZFill(StrRemove(h, HoraSuffix), 4)
    IN  IF z = <<"2", "4", "0", "0">> THEN <<"0", "0", "0", "0">> ELSE z

\* Mutant: the end-of-day hour 2400 is midnight of the next day.
AddTimestamps_Rollover(r) ==
    LET raw  == ZFill(StrRemove(r.cells["hora_utc"], HoraSuffix), 4)
        hora == CleanHora(r.cells["hora_utc"])
        r1   == SetCell(r, "hora_utc", hora)
        utc0 == ToDatetime(r.cells["data"] \o <<" ">> \o hora)
        utc  == IF raw # <<"2", "4", "0", "0">> \/ utc0 = NaT THEN utc0
                ELSE IF utc0.d < DaysInMonth(utc0.y, utc0.mo)
                THEN [utc0 EXCEPT !.d = utc0.d + 1]
                ELSE IF utc0.mo < 12
                THEN [utc0 EXCEPT !.mo = utc0.mo + 1, !.d = 1]
                ELSE [utc0 EXCEPT !.y = utc0.y + 1, !.mo = 1, !.d = 1]
        r2   == SetCell(r1, "timestamp_utc", utc)
    IN  SetCell(r2, "timestamp_local", TzConvert(utc))

\* timestamp_str, timestamp_utc and timestamp_local of one row
AddTimestamps(r) ==
    LET hora == CleanHora(r.cells["hora_utc"])
        r1   == SetCell(r, "hora_utc", hora)
        utc  == ToDatetime(r.cells["data"] \o <<" ">> \o hora)
        r2   == SetCell(r1, "timestamp_utc", utc)
    IN  SetCell(r2, "timestamp_local", TzConvert(utc))

\* Mutant: the rows without a timestamp are not dropped.
DropNaT_KeepAll(rows) == rows

\* df.dropna(subset=['timestamp_local'])
DropNaT(rows) == SelectSeq(rows, LAMBDA r : r.cells["timestamp_local"] # NaT)

numeric_cols ==
    { "precipitacao_total_horario_mm", "pressao_atm_estacao_horaria_mb",
      "pressao_atm_max_hora_ant_mb", "pressao_atm_min_hora_ant_mb",
      "radiacao_global_kj_m2", "temperatura_ar_bulbo_seco_horaria_c",
      "temperatura_ponto_orvalho_c", "temperatura_max_hora_ant_c",
      "temperatura_min_hora_ant_c", "temperatura_orvalho_max_hora_ant_c",
      "temperatura_orvalho_min_hora_ant_c", "umidade_rel_max_hora_ant_percent",
      "umidade_rel_min_hora_ant_percent", "umidade_relativa_ar_horaria_percent",
      "vento_direcao_horaria_gr", "vento_rajada_maxima_ms",
      "vento_velocidade_horaria_ms" }

\* Mutant: the cells that do not parse are filled with zero.
CoerceNumeric_FillZero(r) ==
    [r EXCEPT !.cells = [k \in DOMAIN r.cells |->
        IF k \in numeric_cols
        THEN (IF ToNumericCell(r.cells[k]).nan THEN Num(0) ELSE ToNumericCell(r.cells[k]))
        ELSE r.cells[k]]]

\* for col in numeric_cols: if col in df.columns: pd.to_numeric(coerce)
CoerceNumeric(r) ==
    [r EXCEPT !.cells = [k \in DOMAIN r.cells |->
        IF k \in numeric_cols THEN ToNumericCell(r.cells[k]) ELSE r.cells[k]]]

\* 'temperatura' in c, over the names a column of the frame can have
ContainsTemperatura(c) ==
    c \in { "temperatura_ar_bulbo_seco_horaria_c", "temperatura_ponto_orvalho_c",
            "temperatura_max_hora_ant_c", "temperatura_min_hora_ant_c",
            "temperatura_orvalho_max_hora_ant_c", "temperatura_orvalho_min_hora_ant_c" }

\* The column the humidity rule is applied to.
HumidityRuleCols == {"umidade_relativa_ar_horaria_percent"}

HumidityRule(c, x) ==
    IF c \in HumidityRuleCols /\ ~Between(x, 0, 100 * Scale) THEN NaN ELSE x

PrecipitationRule(c, x) ==
    IF c = "precipitacao_total_horario_mm" /\ LessThan(x, 0) THEN NaN ELSE x

\* Mutant: the upper temperature bound taken as 500 instead of 50.
TemperatureRule_WrongBound(c, x) ==
    IF ContainsTemperatura(c) /\ ~Between(x, -20 * Scale, 500 * Scale) THEN NaN ELSE x

TemperatureRule(c, x) ==
    IF ContainsTemperatura(c) /\ ~Between(x, -20 * Scale, 50 * Scale) THEN NaN ELSE x

\* The data-quality rules, in the order of the code.
ApplyQuality(r) ==
    [r EXCEPT !.cells = [k \in DOMAIN r.cells |->
        IF k \in numeric_cols
        THEN TemperatureRule(k, PrecipitationRule(k, HumidityRule(k, r.cells[k])))
        ELSE r.cells[k]]]

\* Mutant: rows that break a range rule are filtered out instead of nulled.
ApplyQualityRules_Filter(rows) ==
    SelectSeq(MapRows(rows, ApplyQuality),
              LAMBDA r : \A k \in (DOMAIN r.cells) \cap numeric_cols : ~r.cells[k].nan)

\* The quality rules over the whole frame: rows are changed, never removed.
ApplyQualityRules(rows) == MapRows(rows, ApplyQuality)

DedupKey(r) == <<r.cells["timestamp_local"], r.cells["source_file"]>>

\* drop_duplicates(subset=[timestamp_local, source_file], keep='first')
RECURSIVE DropDuplicatesFrom(_, _)
DropDuplicatesFrom(rows, seen) ==
    IF rows = <<>> THEN <<>>
    ELSE IF DedupKey(Head(rows)) \in seen
         THEN DropDuplicatesFrom(Tail(rows), seen)
         ELSE <<Head(rows)>>
              \o DropDuplicatesFrom(Tail(rows), seen \cup {DedupKey(Head(rows))})

RECURSIVE Reverse(_)
Reverse(s) == IF s = <<>> THEN <<>> ELSE Reverse(Tail(s)) \o <<Head(s)>>

\* Mutant: the drop is not done in place and its result is discarded.
DropDuplicates_Discarded(rows) == rows

\* Mutant: keep='last'.
DropDuplicates_KeepLast(rows) == Reverse(DropDuplicatesFrom(Reverse(rows), {}))

DropDuplicates(rows) == DropDuplicatesFrom(rows, {})

\* Mutant: the partition keys are taken from the local timestamp.
AddPartitions_FromLocal(r) ==
    SetCell(SetCell(r, "partition_year", r.cells["timestamp_local"].y),
            "partition_month", r.cells["timestamp_local"].mo)

\* partition_year / partition_month from timestamp_utc
AddPartitions(r) ==
    SetCell(SetCell(r, "partition_year", r.cells["timestamp_utc"].y),
            "partition_month", r.cells["timestamp_utc"].mo)

\* df.drop(columns=['data', 'hora_utc', 'timestamp_utc'], errors='ignore')
DropWorkColumns(df) ==
    SelectColumns(df, df.columns \ {"data", "hora_utc", "timestamp_utc"})

EmptyFrame == [columns |-> {}, rows |-> <<>>]

\* process_bronze_to_silver(df): the table returned, whether it raised, and
\* the two counts it logs.
process_bronze_to_silver(df) ==
    LET d1 == SelectExpected(RenameColumns(df))
    IN  IF ~({"hora_utc", "data"} \subseteq d1.columns)
        THEN [raised |-> TRUE, df |-> EmptyFrame, dropped_count |-> 0, duplicates |-> 0]
        ELSE
        LET stamped == MapRows(d1.rows, AddTimestamps)
            kept    == DropNaT(stamped)
            clean   == ApplyQualityRules(MapRows(kept, CoerceNumeric))
        IN  IF "source_file" \notin d1.columns
            THEN [raised |-> TRUE, df |-> EmptyFrame,
                  dropped_count |-> Len(stamped) - Len(kept), duplicates |-> 0]
            ELSE
            LET unique == DropDuplicates(clean)
                cols   == d1.columns \cup {"timestamp_utc", "timestamp_local",
                                           "partition_year", "partition_month"}
            IN  [raised |-> FALSE,
                 df |-> DropWorkColumns([columns |-> cols,
                                         rows |-> MapRows(unique, AddPartitions)]),
                 dropped_count |-> Len(stamped) - Len(kept),
                 duplicates |-> Len(clean) - Len(unique)]

\* ------------------------------------------------------------------------
\* Inputs: the Bronze tables handed to the Silver stage
\* ------------------------------------------------------------------------

\* Values of the 'Data' column: first days of a month and of a year (whose
\* first hours are local days of the month before), the day after a leap
\* day, a day February does not have, a text in another format, and a date
\* without zero padding.
DateMain == <<"2", "0", "2", "3", "/", "0", "1", "/", "0", "1">>

DatesOther ==
    { <<"2", "0", "2", "3", "/", "0", "2", "/", "0", "1">>,
      <<"2", "0", "2", "4", "/", "0", "1", "/", "0", "1">>,
      <<"2", "0", "2", "4", "/", "0", "3", "/", "0", "1">>,
      <<"2", "0", "2", "3", "/", "0", "2", "/", "3", "0">>,
      <<"0", "1", "/", "0", "1", "/", "2", "0", "2", "3">>,
      <<"2", "0", "2", "3", "/", "1", "/", "5">> }

\* Values of the 'Hora UTC' column, with and without padding, the
\* end-of-day 2400, and two that are no time of day.
HourMain == <<"0", "4", "0", "0", " ", "U", "T", "C">>

Hours ==
    { <<"0", "0", "0", "0", " ", "U", "T", "C">>,
      <<"0", "1", "0", "0", " ", "U", "T", "C">>,
      <<"0", "4", "0", "0", " ", "U", "T", "C">>,
      <<"2", "4", "0", "0", " ", "U", "T", "C">>,
      <<"0", " ", "U", "T", "C">>,
      <<"1", "0", "0", " ", "U", "T", "C">>,
      <<"2", "3", "0", "0", " ", "U", "T", "C">>,
      <<"2", "5", "0", "0", " ", "U", "T", "C">>,
      <<"0", "4", "6", "0", " ", "U", "T", "C">> }

\* Texts of a measurement cell: numbers inside, on and outside the bounds
\* of the ranges, a decimal comma, the INMET '---' marker, the empty text.
TokenMain == <<"2", "5", ".", "5">>

TokensA ==
    { <<"0", ",", "1">>,
      <<"-", "-", "-">>,
      <<"1", "0", "5">>,
      <<"9", "9">>,
      <<"0">>,
      <<"1", "0", "0">>,
      <<"5", "0">>,
      <<"-", "2", "0">> }

TokensB ==
    { <<"-", "5">>,
      <<"-", "2", "0", ".", "0", "0", "1">>,
      <<"1", "0", "0", ".", "1">>,
      <<"5", "0", ".", "1">>,
      <<"-", "0", ".", "1">>,
      <<"0", ".", "1", "2", "3">>,
      <<>> }

TextNotNumber == <<"-", "-", "-">>

SourceFiles == {"file1.csv", "file2.csv"}

MunicipioOf(f) ==
    IF f = "file1.csv"
    THEN <<"J", "O", "A", "O", " ", "P", "E", "S", "S", "O", "A">>
    ELSE <<"C", "A", "M", "P", "I", "N", "A", " ", "G", "R", "A", "N", "D", "E">>

\* One Bronze row: every measurement column holds the text tok.
RawCells(data, hora, tok, file, year) ==
    [c \in RawHeaders |->
        CASE c = "Data" -> data
          [] c = "Hora UTC" -> hora
          [] c = "municipio" -> MunicipioOf(file)
          [] c = "source_file" -> file
          [] c = "partition_year" -> year
          [] OTHER -> tok]

HourZero == <<"0", "0", "0", "0", " ", "U", "T", "C">>

Hour2400 == <<"2", "4", "0", "0", " ", "U", "T", "C">>

Hour0500 == <<"0", "5", "0", "0", " ", "U", "T", "C">>

\* Rows that vary the timestamp: every hour for one file and three for the
\* other, every date at hour zero, and a row whose Bronze partition_year
\* is not the year of its date.
KeyRowChoices ==
    {RawCells(DateMain, h, TokenMain, "file1.csv", 2023) : h \in Hours}
    \cup {RawCells(DateMain, h, TokenMain, "file2.csv", 2023) :
             h \in {HourMain, HourZero, Hour2400}}
    \cup {RawCells(d, HourZero, TokenMain, "file1.csv", 2023) : d \in DatesOther}
    \cup {RawCells(DateMain, <<"0", "1", "0", "0", " ", "U", "T", "C">>, TokenMain, "file1.csv", 1999)}

\* Rows that vary the measurement text, at one of two hours (so that rows
\* with different texts can share a key or not), and one that does not
\* parse as a timestamp.
TokenRowChoices ==
    {RawCells(DateMain, HourMain, t, "file1.csv", 2023) : t \in TokensA \cup {TokenMain}}
    \cup {RawCells(DateMain, Hour0500, t, "file1.csv", 2023) : t \in TokensB}
    \cup {RawCells(DateMain, <<"2", "5", "0", "0", " ", "U", "T", "C">>, TextNotNumber, "file1.csv", 2023)}

\* Rows of the tables whose columns differ from the full header set.
RowChoicesSmall ==
    {RawCells(DateMain, HourMain, t, "file1.csv", 2023) :
        t \in {TokenMain, <<"1", "0", "5">>, <<"-", "5">>, <<"-", "-", "-">>}}
    \cup {RawCells(DateMain, <<"2", "5", "0", "0", " ", "U", "T", "C">>, TokenMain, "file2.csv", 2023)}

SeqsUpTo(S, n) == UNION {[1..k -> S] : k \in 0..n}

\* A frame over the columns cols with a RangeIndex, as read from Parquet.
\* A column of cols that is no raw header is dropped by the stage whatever
\* it holds.
MakeFrame(cols, cellrows) ==
    [columns |-> cols,
     rows |-> [i \in 1..Len(cellrows) |->
                 [index |-> i - 1,
                  cells |-> [c \in cols |->
                               IF c \in RawHeaders THEN cellrows[i][c]
                               ELSE <<"x">>]]]]

\* Column sets other than the full one: a measurement missing and an
\* unknown column present, only the key columns, and a required column
\* missing.
ColumnVariants ==
    { (RawHeaders \ {"PRECIPITACAO TOTAL, HORARIO (mm)",
                     "UMIDADE REL. MIN. NA HORA ANT. (AUT) (%)"}) \cup {"Unnamed: 19"},
      {"Data", "Hora UTC", "municipio", "source_file", "partition_year"},
      RawHeaders \ {"source_file"},
      RawHeaders \ {"Hora UTC"} }

InputFrames ==
    {MakeFrame(RawHeaders, s) : s \in SeqsUpTo(KeyRowChoices, MaxRows)}
    \cup {MakeFrame(RawHeaders, s) : s \in SeqsUpTo(TokenRowChoices, MaxRows)}
    \cup {MakeFrame(cols, s) : cols \in ColumnVariants,
                               s \in SeqsUpTo(RowChoicesSmall, MaxRows) \ {<<>>}}

\* ------------------------------------------------------------------------
\* Parquet datasets (pq.write_to_dataset, pq.read_table, pd.read_parquet)
\* ------------------------------------------------------------------------

\* A dataset on disk: the columns of its files and, for each partition
\* directory, the files it holds; a file is the sequence of its rows.  A
\* dataset without columns is a path that does not exist.
NoParts == [p \in {} |-> <<>>]

EmptyStore == [columns |-> {}, parts |-> NoParts]

\* df.empty: no rows, or no columns.
IsEmpty(df) == df.rows = <<>> \/ df.columns = {}

\* The rows of a frame without their index (preserve_index=False).
CellsOf(df) == MapRows(df.rows, LAMBDA r : r.cells)

\* The values of the partition columns pcols in one row.
PartitionKey(cells, pcols) == <<>> \o [i \in 1..Len(pcols) |-> cells[pcols[i]]]

PartitionsOf(df, pcols) ==
    {PartitionKey(df.rows[i].cells, pcols) : i \in 1..Len(df.rows)}

\* The file written for partition p: the rows of the table that fall in it.
FileOf(df, pcols, p) ==
    SelectSeq(CellsOf(df), LAMBDA c : PartitionKey(c, pcols) = p)

\* Mutant: the files already in a partition are kept next to the new one.
DeleteMatching_KeepExisting(store, df, pcols) ==
    LET new == PartitionsOf(df, pcols)
    IN  [columns |-> df.columns,
         parts |-> NoParts @@ [p \in (DOMAIN store.parts) \cup new |->
                      IF p \in new
                      THEN (IF p \in DOMAIN store.parts THEN store.parts[p] ELSE <<>>)
                           \o <<FileOf(df, pcols, p)>>
                      ELSE store.parts[p]]]

\* existing_data_behavior='delete_matching': a partition the table writes
\* to loses its files and gets the new one; other partitions are kept.
DeleteMatching(store, df, pcols) ==
    LET new == PartitionsOf(df, pcols)
    IN  [columns |-> df.columns,
         parts |-> NoParts @@ [p \in (DOMAIN store.parts) \cup new |->
                      IF p \in new THEN <<FileOf(df, pcols, p)>>
                      ELSE store.parts[p]]]

\* The order of the months as directory names (partition_month=10 sorts
\* before partition_month=2).
MonthDirOrder == <<1, 10, 11, 12, 2, 3, 4, 5, 6, 7, 8, 9>>

MonthDirRank(m) == CHOOSE k \in 1..Len(MonthDirOrder) : MonthDirOrder[k] = m

\* Directory order of two (year, month) partitions of the Silver dataset.
SilverDirLeq(p, q) ==
    \/ p[1] < q[1]
    \/ p[1] = q[1] /\ MonthDirRank(p[2]) <= MonthDirRank(q[2])

RECURSIVE Flatten(_)
Flatten(ss) == IF ss = <<>> THEN <<>> ELSE Head(ss) \o Flatten(Tail(ss))

\* The rows of the partitions ps, partition by partition in directory order.
RECURSIVE RowsInDirOrder(_, _)
RowsInDirOrder(store, ps) ==
    IF ps = {} THEN <<>>
    ELSE LET p == CHOOSE x \in ps : \A y \in ps : SilverDirLeq(x, y)
         IN  Flatten(store.parts[p]) \o RowsInDirOrder(store, ps \ {p})

\* The dataset read back as one table with a RangeIndex.
ReadDataset(store) ==
    LET cells == RowsInDirOrder(store, DOMAIN store.parts)
    IN  [columns |-> store.columns,
         rows |-> <<>> \o [i \in 1..Len(cells) |-> [index |-> i - 1, cells |-> cells[i]]]]

\* The rows a dataset holds, each with the number of times it is stored.
RECURSIVE CountIn(_, _)
CountIn(s, x) ==
    IF s = <<>> THEN 0
    ELSE (IF Head(s) = x THEN 1 ELSE 0) + CountIn(Tail(s), x)

\* ------------------------------------------------------------------------
\* run_processing_silver.py: load, write and main
\* ------------------------------------------------------------------------

\* What the last call of an entry point did; streak counts the calls in a
\* row of that entry point, up to this one, that wrote their table; arg is
\* the table a writer was called with, as it was at the call, and table is
\* what the Gold writer handed to pq.write_to_dataset.
NoRun ==
    [stage |-> "none", loaded |-> "none", transformed |-> FALSE,
     transform_raised |-> FALSE, writer_called |-> FALSE, wrote |-> FALSE,
     write_raised |-> FALSE, result |-> "none", streak |-> 0,
     arg |-> [columns |-> {}, rows |-> <<>>],
     table |-> [columns |-> {}, schema |-> <<>>, rows |-> <<>>]]

\* load_bronze_dataset: the Bronze table, an empty table without columns
\* when the dataset has no rows, or the read's exception.
load_bronze_dataset(store, read_ok) ==
    IF ~read_ok THEN [raised |-> TRUE, df |-> EmptyFrame]
    ELSE IF IsEmpty(store) THEN [raised |-> FALSE, df |-> EmptyFrame]
    ELSE [raised |-> FALSE, df |-> store]

SilverPartitionCols == <<"partition_year", "partition_month">>

\* Mutant: an empty table is written like any other.
write_silver_dataset_NoEmptyCheck(df, store, partition_cols, write_ok) ==
    IF write_ok
    THEN [store |-> DeleteMatching(store, df, partition_cols),
          wrote |-> TRUE, write_raised |-> FALSE, raised |-> FALSE]
    ELSE [store |-> store, wrote |-> FALSE, write_raised |-> TRUE, raised |-> FALSE]

\* write_silver_dataset: nothing for an empty table; an exception of the
\* write (write_ok false) is logged and not raised again.  A write that
\* fails leaves the dataset as it was.
write_silver_dataset(df, store, partition_cols, write_ok) ==
    IF IsEmpty(df)
    THEN [store |-> store, wrote |-> FALSE, write_raised |-> FALSE, raised |-> FALSE]
    ELSE IF write_ok
    THEN [store |-> DeleteMatching(store, df, partition_cols),
          wrote |-> TRUE, write_raised |-> FALSE, raised |-> FALSE]
    ELSE [store |-> store, wrote |-> FALSE, write_raised |-> TRUE, raised |-> FALSE]

\* ------------------------------------------------------------------------
\* run_transformation_gold.py: load_silver_data and aggregate_to_gold
\* ------------------------------------------------------------------------

\* The characters of the station names, in code-point order.
Ascii ==
    << " ",
       "A", "B", "C", "D", "E", "F", "G", "H", "I", "J", "K", "L", "M",
       "N", "O", "P", "Q", "R", "S", "T", "U", "V", "W", "X", "Y", "Z",
       "_",
       "a", "b", "c", "d", "e", "f", "g", "h", "i", "j", "k", "l", "m",
       "n", "o", "p", "q", "r", "s", "t", "u", "v", "w", "x", "y", "z" >>

CharRank(c) == CHOOSE k \in 1..Len(Ascii) : Ascii[k] = c

\* A missing text (None / NaN in an object column).
NA == <<"nan">>

\* str.upper() on one character.
UpperChar(c) ==
    LET k == CharRank(c) IN IF k > 28 THEN Ascii[k - 27] ELSE c

\* Series.str.replace(a, b) for a one-character pattern; a missing text
\* stays missing.
StrReplaceChar(s, a, b) ==
    IF s = NA THEN NA
    ELSE <<>> \o [i \in 1..Len(s) |-> IF s[i] = a THEN b ELSE s[i]]

\* Series.str.upper()
StrUpper(s) ==
    IF s = NA THEN NA ELSE <<>> \o [i \in 1..Len(s) |-> UpperChar(s[i])]

\* Mutant: the name is upper-cased and its spaces are kept.
NormalizeMunicipio_UpperOnly(m) == StrUpper(m)

\* df_silver['municipio'].str.replace(' ', '_').str.upper()
NormalizeMunicipio(m) == StrUpper(StrReplaceChar(m, " ", "_"))

\* Python's order of two texts (by code point, a prefix first).
RECURSIVE StrLeq(_, _)
StrLeq(a, b) ==
    IF a = <<>> THEN TRUE
    ELSE IF b = <<>> THEN FALSE
    ELSE IF Head(a) = Head(b) THEN StrLeq(Tail(a), Tail(b))
    ELSE CharRank(Head(a)) < CharRank(Head(b))

\* A calendar date; NaD is the missing date.
NaD == [y |-> 0, mo |-> 0, d |-> 0]

\* Mutant: the date of the UTC instant instead of the local date.
DateOf_Utc(t) ==
    IF t.h + TARGET_TIMEZONE < 24 THEN [y |-> t.y, mo |-> t.mo, d |-> t.d]
    ELSE IF t.d < DaysInMonth(t.y, t.mo) THEN [y |-> t.y, mo |-> t.mo, d |-> t.d + 1]
    ELSE IF t.mo < 12 THEN [y |-> t.y, mo |-> t.mo + 1, d |-> 1]
    ELSE [y |-> t.y + 1, mo |-> 1, d |-> 1]

\* Series.dt.date
DateOf(t) == [y |-> t.y, mo |-> t.mo, d |-> t.d]

DateLeq(a, b) ==
    \/ a.y < b.y
    \/ a.y = b.y /\ a.mo < b.mo
    \/ a.y = b.y /\ a.mo = b.mo /\ a.d <= b.d

\* load_silver_data: the Silver dataset as one table with the column
\* data_local; raises when the read fails, when the path does not exist
\* or when the table has no timestamp_local.
load_silver_data(store, read_ok) ==
    IF ~read_ok \/ store.columns = {} \/ "timestamp_local" \notin store.columns
    THEN [raised |-> TRUE, df |-> EmptyFrame]
    ELSE LET df == ReadDataset(store)
         IN  [raised |-> FALSE,
              df |-> [columns |-> df.columns \cup {"data_local"},
                      rows |-> MapRows(df.rows,
                                  LAMBDA r : SetCell(r, "data_local",
                                                DateOf(r.cells["timestamp_local"])))]]

\* New column, source column and aggregation, in the order of the dictionary.
all_named_agg_rules ==
    << <<"temp_maxima_diaria_c", "temperatura_max_hora_ant_c", "max">>,
       <<"temp_minima_diaria_c", "temperatura_min_hora_ant_c", "min">>,
       <<"precipitacao_total_diaria_mm", "precipitacao_total_horario_mm", "sum">>,
       <<"temp_media_diaria_c", "temperatura_ar_bulbo_seco_horaria_c", "mean">>,
       <<"umidade_media_diaria_percentual", "umidade_relativa_ar_horaria_percent", "mean">>,
       <<"radiacao_total_diaria_kj_m2", "radiacao_global_kj_m2", "sum">>,
       <<"vento_velocidade_media_diaria_ms", "vento_velocidade_horaria_ms", "mean">>,
       <<"vento_rajada_maxima_diaria_ms", "vento_velocidade_horaria_ms", "max">> >>

\* The rules whose source column is a column of the table.
available_agg_rules(df) ==
    SelectSeq(all_named_agg_rules, LAMBDA rule : rule[2] \in df.columns)

\* An aggregate before rounding: the fraction n / d of thousandths.
ExactNaN == [nan |-> TRUE, n |-> 0, d |-> 1]

Exact(n, d) == [nan |-> FALSE, n |-> n, d |-> d]

RECURSIVE SumV(_)
SumV(vals) == IF vals = <<>> THEN 0 ELSE Head(vals).v + SumV(Tail(vals))

RECURSIVE MaxV(_)
MaxV(vals) ==
    IF Len(vals) = 1 THEN vals[1].v
    ELSE LET m == MaxV(Tail(vals)) IN IF Head(vals).v >= m THEN Head(vals).v ELSE m

RECURSIVE MinV(_)
MinV(vals) ==
    IF Len(vals) = 1 THEN vals[1].v
    ELSE LET m == MinV(Tail(vals)) IN IF Head(vals).v <= m THEN Head(vals).v ELSE m

\* The present values of column c in the rows of a group (skipna).
PresentValues(rows, c) ==
    SelectSeq(MapRows(rows, LAMBDA r : r.cells[c]), LAMBDA x : ~x.nan)

\* Mutant: the sum of a group is divided by the number of its values.
AggSum_Mean(vals) ==
    IF vals = <<>> THEN ExactNaN ELSE Exact(SumV(vals), Len(vals))

\* Mutant: the sum of a group without a present value is NaN (min_count=1).
AggSum_MinCountOne(vals) ==
    IF vals = <<>> THEN ExactNaN ELSE Exact(SumV(vals), 1)

\* groupby sum: 0 for a group without a present value (min_count=0).
AggSum(vals) == Exact(SumV(vals), 1)

\* groupby max / min / mean: NaN for a group without a present value.
AggMax(vals) == IF vals = <<>> THEN ExactNaN ELSE Exact(MaxV(vals), 1)

AggMin(vals) == IF vals = <<>> THEN ExactNaN ELSE Exact(MinV(vals), 1)

AggMean(vals) == IF vals = <<>> THEN ExactNaN ELSE Exact(SumV(vals), Len(vals))

ApplyAggFunc(func, vals) ==
    CASE func = "max"  -> AggMax(vals)
      [] func = "min"  -> AggMin(vals)
      [] func = "sum"  -> AggSum(vals)
      [] func = "mean" -> AggMean(vals)

grouping_keys == <<"data_local", "municipio">>

GroupKey(r) == PartitionKey(r.cells, grouping_keys)

\* groupby drops the rows whose key has a missing value (dropna=True).
HasKey(r) == r.cells["data_local"] # NaD /\ r.cells["municipio"] # NA

GroupKeyLeq(a, b) ==
    \/ a[1] # b[1] /\ DateLeq(a[1], b[1])
    \/ a[1] = b[1] /\ StrLeq(a[2], b[2])

\* The keys in the order groupby(sort=True) gives the groups.
RECURSIVE SortKeys(_)
SortKeys(ks) ==
    IF ks = {} THEN <<>>
    ELSE LET k == CHOOSE x \in ks : \A y \in ks : GroupKeyLeq(x, y)
         IN  <<k>> \o SortKeys(ks \ {k})

\* The rows of the group of key k.
GroupRows(rows, k) == SelectSeq(rows, LAMBDA r : HasKey(r) /\ GroupKey(r) = k)

\* df_silver.groupby(grouping_keys, as_index=False).agg(**rules): one row
\* for each key, the metrics not yet rounded.
GroupByAgg(df, rules) ==
    LET keys  == SortKeys({GroupKey(df.rows[i]) :
                              i \in {j \in 1..Len(df.rows) : HasKey(df.rows[j])}})
        names == {rules[i][1] : i \in 1..Len(rules)}
        rule  == [n \in names |-> rules[CHOOSE i \in 1..Len(rules) : rules[i][1] = n]]
    IN  [columns |-> {"data_local", "municipio"} \cup names,
         rows |-> <<>> \o
            [i \in 1..Len(keys) |->
               LET g == GroupRows(df.rows, keys[i])
               IN  [index |-> i - 1,
                    cells |-> [c \in {"data_local", "municipio"} \cup names |->
                                 IF c = "data_local" THEN keys[i][1]
                                 ELSE IF c = "municipio" THEN keys[i][2]
                                 ELSE ApplyAggFunc(rule[c][3],
                                                   PresentValues(g, rule[c][2]))]]]]

\* a - b on two aggregates of denominator 1 (max and min).
ExactMinus(a, b) ==
    IF a.nan \/ b.nan THEN ExactNaN ELSE Exact(a.n * b.d - b.n * a.d, a.d * b.d)

\* Mutant: the amplitude is added whenever the maximum is a column.
AddAmplitude_MaxOnly(df) ==
    IF "temp_maxima_diaria_c" \in df.columns
    THEN [columns |-> df.columns \cup {"amplitude_termica_diaria_c"},
          rows |-> MapRows(df.rows,
                      LAMBDA r : SetCell(r, "amplitude_termica_diaria_c",
                                    r.cells["temp_maxima_diaria_c"]))]
    ELSE df

\* amplitude_termica_diaria_c = temp_maxima_diaria_c - temp_minima_diaria_c
\* when both are columns.
AddAmplitude(df) ==
    IF {"temp_maxima_diaria_c", "temp_minima_diaria_c"} \subseteq df.columns
    THEN [columns |-> df.columns \cup {"amplitude_termica_diaria_c"},
          rows |-> MapRows(df.rows,
                      LAMBDA r : SetCell(r, "amplitude_termica_diaria_c",
                                    ExactMinus(r.cells["temp_maxima_diaria_c"],
                                               r.cells["temp_minima_diaria_c"])))]
    ELSE df

\* Column and number of decimal places.
rounding_map ==
    << <<"temp_maxima_diaria_c", 2>>,
       <<"temp_minima_diaria_c", 2>>,
       <<"precipitacao_total_diaria_mm", 1>>,
       <<"temp_media_diaria_c", 2>>,
       <<"umidade_media_diaria_percentual", 2>>,
       <<"radiacao_total_diaria_kj_m2", 2>>,
       <<"vento_velocidade_media_diaria_ms", 2>>,
       <<"vento_rajada_maxima_diaria_ms", 2>>,
       <<"amplitude_termica_diaria_c", 2>> >>

MetricNames == {rounding_map[i][1] : i \in 1..Len(rounding_map)}

DecimalsOf(c) ==
    rounding_map[CHOOSE i \in 1..Len(rounding_map) : rounding_map[i][1] = c][2]

\* Series.round(decimals) on one value: the nearest multiple of
\* 10^-decimals, a value half way between two going to the even one.
RoundTo(x, decimals) ==
    IF x.nan THEN NaN
    ELSE LET unit == Pow10(3 - decimals)
             den  == x.d * unit
             q    == x.n \div den
             r2   == 2 * (x.n % den)
         IN  IF r2 < den THEN Num(q * unit)
             ELSE IF r2 > den THEN Num((q + 1) * unit)
             ELSE IF q % 2 = 0 THEN Num(q * unit) ELSE Num((q + 1) * unit)

\* Mutant: every metric is rounded to two decimal places.
RoundMetrics_AllTwo(df) ==
    [columns |-> df.columns,
     rows |-> MapRows(df.rows,
                 LAMBDA r : [r EXCEPT !.cells =
                               [c \in df.columns |->
                                  IF c \in MetricNames
                                  THEN RoundTo(r.cells[c], 2)
                                  ELSE r.cells[c]]])]

\* df_gold[col] = df_gold[col].round(decimals) for the columns of
\* rounding_map the table has.
RoundMetrics(df) ==
    [columns |-> df.columns,
     rows |-> MapRows(df.rows,
                 LAMBDA r : [r EXCEPT !.cells =
                               [c \in df.columns |->
                                  IF c \in MetricNames
                                  THEN RoundTo(r.cells[c], DecimalsOf(c))
                                  ELSE r.cells[c]]])]

\* The caller's table after line 68: municipio is rewritten in place.
NormalizeFrame(df) ==
    [columns |-> df.columns,
     rows |-> MapRows(df.rows,
                 LAMBDA r : SetCell(r, "municipio",
                               NormalizeMunicipio(r.cells["municipio"])))]

\* Mutant: a table without municipio is grouped by the date alone.
aggregate_to_gold_NoMunicipioCheck(df_in) ==
    IF "municipio" \notin df_in.columns
    THEN [raised |-> FALSE, df |-> EmptyFrame, df_silver |-> df_in]
    ELSE LET df == NormalizeFrame(df_in)
             rules == available_agg_rules(df)
         IN  IF rules = <<>>
             THEN [raised |-> FALSE, df |-> EmptyFrame, df_silver |-> df]
             ELSE [raised |-> FALSE,
                   df |-> RoundMetrics(AddAmplitude(GroupByAgg(df, rules))),
                   df_silver |-> df]

\* Mutant: a table without any source column of a metric is an error.
aggregate_to_gold_NoRulesRaises(df_in) ==
    IF "municipio" \notin df_in.columns
    THEN [raised |-> TRUE, df |-> EmptyFrame, df_silver |-> df_in]
    ELSE LET df == NormalizeFrame(df_in)
             rules == available_agg_rules(df)
         IN  IF rules = <<>> \/ "data_local" \notin df.columns
             THEN [raised |-> TRUE, df |-> EmptyFrame, df_silver |-> df]
             ELSE [raised |-> FALSE,
                   df |-> RoundMetrics(AddAmplitude(GroupByAgg(df, rules))),
                   df_silver |-> df]

\* aggregate_to_gold(df_silver): whether it raised, the table returned and
\* the caller's table as the call leaves it.
aggregate_to_gold(df_in) ==
    IF "municipio" \notin df_in.columns
    THEN [raised |-> TRUE, df |-> EmptyFrame, df_silver |-> df_in]
    ELSE LET df == NormalizeFrame(df_in)
             rules == available_agg_rules(df)
         IN  IF rules = <<>>
             THEN [raised |-> FALSE, df |-> EmptyFrame, df_silver |-> df]
             ELSE IF "data_local" \notin df.columns
             THEN [raised |-> TRUE, df |-> EmptyFrame, df_silver |-> df]
             ELSE [raised |-> FALSE,
                   df |-> RoundMetrics(AddAmplitude(GroupByAgg(df, rules))),
                   df_silver |-> df]

\* ------------------------------------------------------------------------
\* run_transformation_gold.py: write_gold_dataset and main_gold
\* ------------------------------------------------------------------------

\* The columns of the target schema, in its order.
schema_fields ==
    << "data_local", "municipio",
       "temp_maxima_diaria_c", "temp_minima_diaria_c",
       "precipitacao_total_diaria_mm", "temp_media_diaria_c",
       "umidade_media_diaria_percentual", "radiacao_total_diaria_kj_m2",
       "vento_velocidade_media_diaria_ms", "vento_rajada_maxima_diaria_ms",
       "amplitude_termica_diaria_c", "ano", "mes" >>

SchemaColumns == {schema_fields[i] : i \in 1..Len(schema_fields)}

GoldPartitionCols == <<"ano", "mes", "municipio">>

\* Mutant: the partitions of the table are emptied before the write.
OverwriteOrIgnore_Replace(store, df, pcols) == DeleteMatching(store, df, pcols)

\* existing_data_behavior='overwrite_or_ignore' with a fresh file name for
\* every write: the new file is added next to the files of the partition.
OverwriteOrIgnore(store, df, pcols) ==
    LET new == PartitionsOf(df, pcols)
    IN  [columns |-> df.columns,
         parts |-> NoParts @@ [p \in (DOMAIN store.parts) \cup new |->
                      IF p \in new
                      THEN (IF p \in DOMAIN store.parts THEN store.parts[p] ELSE <<>>)
                           \o <<FileOf(df, pcols, p)>>
                      ELSE store.parts[p]]]

\* A cell without value in an object column (None).
None == [none |-> TRUE]

\* A float that is infinite.
Inf == [nan |-> FALSE, v |-> 0, inf |-> TRUE]

\* isinstance(x, (int, float)) and np.isfinite(x), after pd.notna(x): a
\* float that is neither NaN nor infinite.  A Decimal is no float.
IsFiniteFloat(x) == "nan" \in DOMAIN x /\ "inf" \notin DOMAIN x /\ ~x.nan

\* A Python Decimal: coef * 10^exp.
Dec(coef, exp) == [coef |-> coef, exp |-> exp]

\* Decimal(str(x)) for a float of v thousandths: str gives the shortest
\* digits that read back as x, with at least one digit after the point.
DecimalOfStr(v) ==
    IF v % Pow10(2) = 0 THEN Dec(v \div Pow10(2), -1)
    ELSE IF v % Pow10(1) = 0 THEN Dec(v \div Pow10(1), -2)
    ELSE Dec(v, -3)

\* The lambda of lines 191-193.
ToDecimalCell(x) == IF IsFiniteFloat(x) THEN DecimalOfStr(x.v) ELSE None

\* The columns of the schema of type decimal128 and the scale of each.
DecimalScale ==
    [c \in MetricNames |-> IF c = "precipitacao_total_diaria_mm" THEN 1 ELSE 2]

\* Mutant: a cell without a finite value is written as zero.
PrepareGold_ZeroForAbsent(df) ==
    LET cols == df.columns \cup SchemaColumns
    IN  [columns |-> cols,
         rows |-> MapRows(df.rows,
                     LAMBDA r : [r EXCEPT !.cells =
                                   [c \in cols |->
                                      IF c = "ano" THEN r.cells["data_local"].y
                                      ELSE IF c = "mes" THEN r.cells["data_local"].mo
                                      ELSE IF c \in MetricNames
                                      THEN (IF c \in df.columns /\ IsFiniteFloat(r.cells[c])
                                            THEN DecimalOfStr(r.cells[c].v)
                                            ELSE Dec(0, -1))
                                      ELSE IF c \in df.columns THEN r.cells[c]
                                      ELSE None]])]

\* Mutant: the columns of the schema that the table lacks are not added.
PrepareGold_NoMissingColumns(df) ==
    LET cols == df.columns \cup {"ano", "mes"}
    IN  [columns |-> cols,
         rows |-> MapRows(df.rows,
                     LAMBDA r : [r EXCEPT !.cells =
                                   [c \in cols |->
                                      IF c = "ano" THEN r.cells["data_local"].y
                                      ELSE IF c = "mes" THEN r.cells["data_local"].mo
                                      ELSE IF c \in MetricNames THEN ToDecimalCell(r.cells[c])
                                      ELSE r.cells[c]]])]

\* The caller's table as lines 155-193 leave it: ano and mes added, every
\* missing column of the schema added with None, the cells of the decimal
\* columns as Decimal, or None where there is no finite float.
PrepareGold(df) ==
    LET cols == df.columns \cup SchemaColumns
    IN  [columns |-> cols,
         rows |-> MapRows(df.rows,
                     LAMBDA r : [r EXCEPT !.cells =
                                   [c \in cols |->
                                      IF c = "ano" THEN r.cells["data_local"].y
                                      ELSE IF c = "mes" THEN r.cells["data_local"].mo
                                      ELSE IF c \in MetricNames
                                      THEN (IF c \in df.columns THEN ToDecimalCell(r.cells[c])
                                            ELSE None)
                                      ELSE IF c \in df.columns THEN r.cells[c]
                                      ELSE None]])]

\* final_columns_order: the columns of the schema that the table has, in
\* the order of the schema.
final_columns_order(df) == SelectSeq(schema_fields, LAMBDA c : c \in df.columns)

\* Mutant: the columns are handed over in the reverse order.
ArrowTable_ColumnsReversed(df) ==
    LET order == final_columns_order(df)
    IN  [columns |-> {order[i] : i \in 1..Len(order)},
         schema |-> <<>> \o [i \in 1..Len(order) |-> order[Len(order) + 1 - i]],
         rows |-> SelectColumns(df, {order[i] : i \in 1..Len(order)}).rows]

\* df[final_columns_order] as pa.Table.from_pandas(df, schema=final_schema,
\* preserve_index=False): the columns in the order of the schema, a
\* Decimal stored at the scale of its column.  The decimals the model
\* hands over have no more digits than that scale.
ArrowTable(df) ==
    LET order == final_columns_order(df)
        cols  == {order[i] : i \in 1..Len(order)}
    IN  [columns |-> cols,
         schema |-> order,
         rows |-> MapRows(df.rows,
                     LAMBDA r : [r EXCEPT !.cells =
                                   [c \in cols |->
                                      IF c \in MetricNames /\ r.cells[c] # None
                                      THEN Dec(r.cells[c].coef
                                                 * Pow10(DecimalScale[c] + r.cells[c].exp),
                                               -DecimalScale[c])
                                      ELSE r.cells[c]]])]

\* What a writer that did not reach the storage handed to it.
NoTable == [columns |-> {}, schema |-> <<>>, rows |-> <<>>]

\* write_gold_dataset: nothing for an empty table; otherwise the caller's
\* table is changed in place, the Arrow table is built and handed to
\* pq.write_to_dataset, and an exception of the write (write_ok false) is
\* logged and raised again.
write_gold_dataset(df, store, write_ok) ==
    IF IsEmpty(df)
    THEN [store |-> store, df |-> df, table |-> NoTable,
          wrote |-> FALSE, write_raised |-> FALSE, raised |-> FALSE]
    ELSE LET prepared == PrepareGold(df)
             table == ArrowTable(prepared)
         IN  IF write_ok
             THEN [store |-> OverwriteOrIgnore(store, table, GoldPartitionCols),
                   df |-> prepared, table |-> table,
                   wrote |-> TRUE, write_raised |-> FALSE, raised |-> FALSE]
             ELSE [store |-> store, df |-> prepared, table |-> table,
                   wrote |-> FALSE, write_raised |-> TRUE, raised |-> TRUE]

\* ------------------------------------------------------------------------
\* The state machine
\* ------------------------------------------------------------------------

\* The stores, the Gold stage and the orchestrator before anything ran.
StageIdle ==
    /\ raw_source = EmptyFrame
    /\ bronze_store = EmptyFrame
    /\ silver_store = EmptyStore
    /\ gold_store = EmptyStore
    /\ df_silver = EmptyFrame
    /\ df_gold = EmptyFrame
    /\ last = NoRun
    /\ pc = "idle"
    /\ trace = <<>>
    /\ runs = 0

\* No ingestion is running.
IngestionIdle ==
    /\ year_source = <<>>
    /\ future_to_year = <<>>
    /\ bronze_dataset = EmptyStore
    /\ bronze_before = EmptyStore
    /\ total_records_ingested = 0

Init ==
    /\ IngestionIdle
    /\ bronze_df \in InputFrames
    /\ silver_df = EmptyFrame
    /\ status = "ready"
    /\ log = [dropped_count |-> 0, duplicates |-> 0]
    /\ StageIdle

\* One call of process_bronze_to_silver on the loaded Bronze table.  The
\* rename is done in place, so the caller's table keeps the new names.
ProcessBronzeToSilver ==
    /\ status = "ready"
    /\ \E res \in {process_bronze_to_silver(bronze_df)} :
           /\ bronze_df' = RenameColumns(bronze_df)
           /\ silver_df' = res.df
           /\ status' = IF res.raised THEN "raised" ELSE "done"
           /\ log' = [dropped_count |-> res.dropped_count,
                      duplicates |-> res.duplicates]
    /\ UNCHANGED stage_vars
    /\ UNCHANGED bronze_vars

Next == ProcessBronzeToSilver

Spec == Init /\ [][Next]_vars

\* ------------------------------------------------------------------------
\* The stages and the orchestrator (pipelines/run_all.py)
\* ------------------------------------------------------------------------

\* Largest number of calls of an entry point from outside.
MaxRuns == 2

Row1 == RawCells(DateMain, HourMain, TokenMain, "file1.csv", 2023)

\* Same key as Row1, other values.
Row1Again == RawCells(DateMain, HourMain, <<"9", "9">>, "file1.csv", 2023)

\* A row of another month and another station.
Row2 ==
    RawCells(<<"2", "0", "2", "3", "/", "0", "2", "/", "0", "1">>, HourMain,
             <<"0", ".", "1", "2", "3">>, "file2.csv", 2023)

\* A row that does not parse as a timestamp.
RowBad ==
    RawCells(DateMain, <<"2", "5", "0", "0", " ", "U", "T", "C">>, TokenMain,
             "file1.csv", 2023)

\* What the source delivers to the Bronze layer: nothing, one row, rows of
\* two partitions, rows with a duplicate, only a row that is dropped, and
\* a row that is dropped before one that is kept.
PipelineTables ==
    {MakeFrame(RawHeaders, s) :
        s \in { <<>>, <<Row1>>, <<Row1, Row2>>, <<Row1, Row1Again>>,
                <<RowBad>>, <<RowBad, Row2>> }}

\* A dataset that exists and has no rows.
SilverColumns ==
    (CanonicalNames \ {"data", "hora_utc"}) \cup {"timestamp_local", "partition_month"}

EmptySilverDataset == [columns |-> SilverColumns, parts |-> NoParts]

\* main of run_ingestion_bronze.py (imported as main_bronze), as the
\* orchestrator sees it: it raises when the root directory cannot be made;
\* otherwise it returns, with the years written to the Bronze dataset
\* ("ingested"), with nothing to write ("nothing"), or with the exception
\* of a year caught and logged ("year_failed").
main_bronze(bstore, source, outcome) ==
    LET base == [NoRun EXCEPT !.stage = "main_bronze", !.result = "returned"]
    IN  CASE outcome = "raised" ->
               [store |-> bstore, last |-> [base EXCEPT !.result = "failed"]]
          [] outcome = "year_failed" ->
               [store |-> bstore, last |-> [base EXCEPT !.transform_raised = TRUE]]
          [] outcome = "nothing" ->
               [store |-> bstore, last |-> base]
          [] outcome = "ingested" ->
               [store |-> source,
                last |-> [base EXCEPT !.transformed = TRUE, !.writer_called = TRUE,
                                      !.wrote = ~IsEmpty(source)]]

BronzeOutcomes == {"raised", "year_failed", "nothing", "ingested"}

\* An exception happened in the run of a stage, caught or not.
StageFailed(l) ==
    \/ l.loaded = "raised"
    \/ l.transform_raised
    \/ l.write_raised
    \/ l.result = "failed"

\* The call of a stage and its end, as the orchestrator sees them.
StageEvents(l) ==
    << [stage |-> l.stage, event |-> "call", failed |-> FALSE],
       [stage |-> l.stage,
        event |-> IF l.result = "failed" THEN "raise" ELSE "return",
        failed |-> StageFailed(l)] >>

PipelineEnd(ok) ==
    [stage |-> "run_full_pipeline",
     event |-> IF ok THEN "success" ELSE "failure", failed |-> ~ok]

\* Mutant: the Gold stage is called before the Silver stage.
StageAfter_GoldFirst(stage) ==
    CASE stage = "bronze" -> "gold"
      [] stage = "gold"   -> "silver"
      [] stage = "silver" -> "idle"

\* The statement that follows the call of a stage in run_full_pipeline.
StageAfter(stage) ==
    CASE stage = "bronze" -> "silver"
      [] stage = "silver" -> "gold"
      [] stage = "gold"   -> "idle"

\* try/except of run_full_pipeline around the call that ended as l: an
\* exception ends the run with the failure logged, a return goes on.
AfterStage(stage, l) ==
    IF l.result = "failed"
    THEN /\ pc' = "idle"
         /\ trace' = trace \o StageEvents(l) \o <<PipelineEnd(FALSE)>>
    ELSE /\ pc' = StageAfter(stage)
         /\ trace' = trace \o StageEvents(l) \o
                     (IF StageAfter(stage) = "idle" THEN <<PipelineEnd(TRUE)>> ELSE <<>>)

\* The result of a transform or of a writer that was not called.
NotCalled ==
    [raised |-> FALSE, df |-> EmptyFrame, df_silver |-> EmptyFrame, table |-> NoTable,
     dropped_count |-> 0, duplicates |-> 0,
     wrote |-> FALSE, write_raised |-> FALSE]

\* main of run_processing_silver.py (imported as main_silver): load, stop
\* on an empty table, process, write.  Every exception is caught and
\* logged, and the call returns normally.
main_silver(read_ok, write_ok) ==
    \E ld \in {load_bronze_dataset(bronze_store, read_ok)} :
    \E transform \in {~ld.raised /\ ~IsEmpty(ld.df)} :
    \E res \in {IF transform THEN process_bronze_to_silver(ld.df) ELSE NotCalled} :
    \E write \in {transform /\ ~res.raised} :
    \E w \in {IF write
              THEN write_silver_dataset(res.df, silver_store, SilverPartitionCols, write_ok)
              ELSE NotCalled @@ [store |-> silver_store]} :
        /\ bronze_df' = IF transform THEN RenameColumns(ld.df) ELSE ld.df
        /\ silver_df' = res.df
        /\ status' = IF ~transform THEN "ready"
                     ELSE IF res.raised THEN "raised" ELSE "done"
        /\ log' = [dropped_count |-> res.dropped_count, duplicates |-> res.duplicates]
        /\ silver_store' = w.store
        /\ last' = [stage |-> "main_silver",
                    loaded |-> IF ld.raised THEN "raised"
                               ELSE IF IsEmpty(ld.df) THEN "empty" ELSE "ok",
                    transformed |-> transform,
                    transform_raised |-> res.raised,
                    writer_called |-> write,
                    wrote |-> w.wrote,
                    write_raised |-> w.write_raised,
                    result |-> "returned",
                    streak |-> IF ~w.wrote THEN 0
                               ELSE IF last.stage = "main_silver" THEN last.streak + 1
                               ELSE 1,
                    arg |-> IF write THEN res.df ELSE EmptyFrame,
                    table |-> NoTable]

\* main_gold: load, stop on an empty table, aggregate, stop on an empty
\* result, write.  Every exception is caught and logged, and the call
\* returns normally.
main_gold(read_ok, write_ok) ==
    \E ld \in {load_silver_data(silver_store, read_ok)} :
    \E transform \in {~ld.raised /\ ~IsEmpty(ld.df)} :
    \E res \in {IF transform THEN aggregate_to_gold(ld.df) ELSE NotCalled} :
    \E write \in {transform /\ ~res.raised /\ ~IsEmpty(res.df)} :
    \E w \in {IF write THEN write_gold_dataset(res.df, gold_store, write_ok)
              ELSE NotCalled @@ [store |-> gold_store]} :
        /\ df_silver' = IF transform THEN res.df_silver ELSE ld.df
        /\ df_gold' = IF write THEN w.df ELSE res.df
        /\ gold_store' = w.store
        /\ last' = [stage |-> "main_gold",
                    loaded |-> IF ld.raised THEN "raised"
                               ELSE IF IsEmpty(ld.df) THEN "empty" ELSE "ok",
                    transformed |-> transform,
                    transform_raised |-> res.raised,
                    writer_called |-> write,
                    wrote |-> w.wrote,
                    write_raised |-> w.write_raised,
                    result |-> "returned",
                    streak |-> IF ~w.wrote THEN 0
                               ELSE IF last.stage = "main_gold" THEN last.streak + 1
                               ELSE 1,
                    arg |-> IF write THEN res.df ELSE EmptyFrame,
                    table |-> w.table]

\* main_silver() called from the command line (pc = "idle") or as the
\* second stage of run_full_pipeline (pc = "silver").
MainSilver ==
    /\ pc \in {"idle", "silver"}
    /\ pc = "idle" => runs < MaxRuns
    /\ \E read_ok, write_ok \in BOOLEAN : main_silver(read_ok, write_ok)
    /\ IF pc = "silver"
       THEN AfterStage("silver", last') /\ runs' = runs
       ELSE runs' = runs + 1 /\ UNCHANGED <<pc, trace>>
    /\ UNCHANGED <<raw_source, bronze_store, gold_store, df_silver, df_gold>>
    /\ UNCHANGED bronze_vars

\* main_gold() called from the command line (pc = "idle") or as the third
\* stage of run_full_pipeline (pc = "gold").
MainGold ==
    /\ pc \in {"idle", "gold"}
    /\ pc = "idle" => runs < MaxRuns
    /\ \E read_ok, write_ok \in BOOLEAN : main_gold(read_ok, write_ok)
    /\ IF pc = "gold"
       THEN AfterStage("gold", last') /\ runs' = runs
       ELSE runs' = runs + 1 /\ UNCHANGED <<pc, trace>>
    /\ UNCHANGED <<bronze_df, silver_df, status, log,
                   raw_source, bronze_store, silver_store>>
    /\ UNCHANGED bronze_vars

\* A call of write_silver_dataset with an empty table or the last Silver table.
WriteSilverDataset ==
    /\ pc = "idle" /\ runs < MaxRuns
    /\ \E df \in {EmptyFrame, silver_df}, write_ok \in BOOLEAN :
         \E w \in {write_silver_dataset(df, silver_store, SilverPartitionCols, write_ok)} :
            /\ silver_store' = w.store
            /\ last' = [NoRun EXCEPT !.stage = "write_silver_dataset",
                                     !.loaded = IF IsEmpty(df) THEN "empty" ELSE "ok",
                                     !.arg = df,
                                     !.writer_called = TRUE, !.wrote = w.wrote,
                                     !.write_raised = w.write_raised,
                                     !.result = IF w.raised THEN "failed" ELSE "returned"]
    /\ runs' = runs + 1
    /\ UNCHANGED <<bronze_df, silver_df, status, log, raw_source, bronze_store,
                   gold_store, df_silver, df_gold, pc, trace>>
    /\ UNCHANGED bronze_vars

\* The table df with one more column, which the schema does not have.
WithExtraColumn(df) ==
    [columns |-> df.columns \cup {"observacao"},
     rows |-> MapRows(df.rows, LAMBDA r : SetCell(r, "observacao", <<"x">>))]

\* The table df with an infinite daily maximum in every row.
WithInf(df) ==
    [columns |-> df.columns \cup {"temp_maxima_diaria_c"},
     rows |-> MapRows(df.rows, LAMBDA r : SetCell(r, "temp_maxima_diaria_c", Inf))]

\* The tables write_gold_dataset is called with: none, the last Gold table,
\* and that table with a column more or with infinite values.
GoldWriteArgs ==
    {EmptyFrame, df_gold}
    \cup (IF IsEmpty(df_gold) THEN {} ELSE {WithExtraColumn(df_gold), WithInf(df_gold)})

\* A call of write_gold_dataset.
WriteGoldDataset ==
    /\ pc = "idle" /\ runs < MaxRuns
    /\ \E df \in GoldWriteArgs, write_ok \in BOOLEAN :
         \E w \in {write_gold_dataset(df, gold_store, write_ok)} :
            /\ gold_store' = w.store
            /\ df_gold' = w.df
            /\ last' = [NoRun EXCEPT !.stage = "write_gold_dataset",
                                     !.loaded = IF IsEmpty(df) THEN "empty" ELSE "ok",
                                     !.arg = df, !.table = w.table,
                                     !.writer_called = TRUE, !.wrote = w.wrote,
                                     !.write_raised = w.write_raised,
                                     !.result = IF w.raised THEN "failed" ELSE "returned"]
    /\ runs' = runs + 1
    /\ UNCHANGED <<bronze_df, silver_df, status, log, raw_source, bronze_store,
                   silver_store, df_silver, pc, trace>>
    /\ UNCHANGED bronze_vars

\* run_full_pipeline is called.
RunFullPipeline ==
    /\ pc = "idle" /\ runs < MaxRuns
    /\ pc' = "bronze"
    /\ trace' = <<>>
    /\ runs' = runs + 1
    /\ UNCHANGED <<bronze_df, silver_df, status, log, raw_source, bronze_store,
                   silver_store, gold_store, df_silver, df_gold, last>>
    /\ UNCHANGED bronze_vars

\* main_bronze() as the first stage of run_full_pipeline
MainBronze ==
    /\ pc = "bronze"
    /\ \E outcome \in BronzeOutcomes :
         \E res \in {main_bronze(bronze_store, raw_source, outcome)} :
            /\ bronze_store' = res.store
            /\ last' = res.last
            /\ AfterStage("bronze", res.last)
    /\ UNCHANGED <<bronze_df, silver_df, status, log, raw_source,
                   silver_store, gold_store, df_silver, df_gold, runs>>
    /\ UNCHANGED bronze_vars

InitPipeline ==
    /\ IngestionIdle
    /\ raw_source \in PipelineTables
    /\ bronze_store \in {EmptyFrame, raw_source}
    /\ silver_store \in {EmptyStore, EmptySilverDataset}
    /\ gold_store = EmptyStore
    /\ bronze_df = EmptyFrame
    /\ silver_df = EmptyFrame
    /\ status = "ready"
    /\ log = [dropped_count |-> 0, duplicates |-> 0]
    /\ df_silver = EmptyFrame
    /\ df_gold = EmptyFrame
    /\ last = NoRun
    /\ pc = "idle"
    /\ trace = <<>>
    /\ runs = 0

NextPipeline ==
    \/ MainSilver
    \/ MainGold
    \/ WriteSilverDataset
    \/ WriteGoldDataset
    \/ RunFullPipeline
    \/ MainBronze

SpecPipeline == InitPipeline /\ [][NextPipeline]_vars

\* ------------------------------------------------------------------------
\* The Gold stage on its own (load_silver_data, aggregate_to_gold, main_gold)
\* ------------------------------------------------------------------------

\* Largest number of rows of a Silver dataset handed to the Gold stage.
MaxGoldRows == 3

\* The source columns of the aggregation rules.
SourceColumns == {all_named_agg_rules[i][2] : i \in 1..Len(all_named_agg_rules)}

GoldInputColumns ==
    {"timestamp_local", "municipio", "partition_year", "partition_month"}
    \cup SourceColumns

\* What a source column holds, in thousandths, in a row of base value x:
\* the columns differ so that no metric can be taken from another column.
OffsetOf(c) ==
    CASE c = "temperatura_max_hora_ant_c"          -> 2006
      [] c = "temperatura_min_hora_ant_c"          -> 0
      [] c = "precipitacao_total_horario_mm"       -> 0
      [] c = "temperatura_ar_bulbo_seco_horaria_c" -> 1000
      [] c = "umidade_relativa_ar_horaria_percent" -> 50000
      [] c = "radiacao_global_kj_m2"               -> 100000
      [] c = "vento_velocidade_horaria_ms"         -> 3000

\* A Silver row of the UTC instant utc: the local timestamp, the station,
\* the partition columns (taken from the UTC instant), and the
\* measurements, absent in the columns of holes.
HourlyRow(utc, mun, x, holes) ==
    [c \in GoldInputColumns |->
        CASE c = "timestamp_local" -> TzConvert(utc)
          [] c = "municipio"       -> mun
          [] c = "partition_year"  -> utc.y
          [] c = "partition_month" -> utc.mo
          [] OTHER -> IF c \in holes THEN NaN ELSE Num(x + OffsetOf(c))]

\* 12:00 local time of 2023-01-01.
Noon1 == [y |-> 2023, mo |-> 1, d |-> 1, h |-> 15, mi |-> 0]

\* 13:00 local time of the same day.
Later1 == [y |-> 2023, mo |-> 1, d |-> 1, h |-> 16, mi |-> 0]

\* 23:00 local time of 2023-01-31, which is 02:00 UTC of 2023-02-01.
LateJanuary == [y |-> 2023, mo |-> 2, d |-> 1, h |-> 2, mi |-> 0]

StationAB == <<"a", " ", "b">>

StationABNorm == <<"A", "_", "B">>

StationB == <<"b">>

\* Rows of one day and station with precipitation 0.0, 5.2 and 0.123 (the
\* third with the station already normalised), a row of another station,
\* a row of the last hour of another day (its UTC instant is in the next
\* month) with negative temperatures and no precipitation,
\* a row without any measurement, and a row without station.
HourlyRowList ==
    << HourlyRow(Noon1, StationAB, 0, {}),
       HourlyRow(Later1, StationAB, 5200, {}),
       HourlyRow(Noon1, StationABNorm, 123, {}),
       HourlyRow(Noon1, StationB, 6, {}),
       HourlyRow(LateJanuary, StationAB, -1506, {"precipitacao_total_horario_mm"}),
       HourlyRow(Noon1, StationAB, 0, SourceColumns),
       HourlyRow(Noon1, NA, 0, {}) >>

HourlyRowChoices == {HourlyRowList[i] : i \in DOMAIN HourlyRowList}

HourlyRowChoicesSmall ==
    { HourlyRow(Noon1, StationAB, 0, {}),
      HourlyRow(Noon1, StationB, 6, {}),
      HourlyRow(Noon1, StationAB, 0, SourceColumns) }

\* Column sets other than the full one: a measurement column missing, one
\* of the two temperature extremes missing, no measurement column at all,
\* no station column, no timestamp.
GoldColumnVariants ==
    { GoldInputColumns \ {"precipitacao_total_horario_mm"},
      GoldInputColumns \ {"temperatura_min_hora_ant_c"},
      GoldInputColumns \ {"temperatura_max_hora_ant_c"},
      GoldInputColumns \ {"vento_velocidade_horaria_ms", "radiacao_global_kj_m2"},
      GoldInputColumns \ SourceColumns,
      GoldInputColumns \ {"municipio"},
      GoldInputColumns \ {"timestamp_local"} }

\* The table over the columns cols with the given rows.
HourlyFrame(cols, cellrows) ==
    [columns |-> cols,
     rows |-> <<>> \o [i \in 1..Len(cellrows) |->
                 [index |-> i - 1, cells |-> [c \in cols |-> cellrows[i][c]]]]]

\* The row lists of at most n rows, each list in the order of HourlyRowList
\* (the aggregation groups and sorts, so the order of the rows of a file
\* does not reach its result).
HourlyRowSeqs(n) ==
    {<<>> \o [i \in 1..Len(p) |-> HourlyRowList[p[i]]] :
        p \in {q \in SeqsUpTo(DOMAIN HourlyRowList, n) :
                  \A i \in 1..(Len(q) - 1) : q[i] <= q[i + 1]}}

\* The Silver datasets the Gold stage is run on, as write_silver_dataset
\* leaves them.
GoldStores ==
    {DeleteMatching(EmptyStore, HourlyFrame(GoldInputColumns, s), SilverPartitionCols) :
        s \in HourlyRowSeqs(MaxGoldRows)}
    \cup
    {DeleteMatching(EmptyStore, HourlyFrame(cols, s), SilverPartitionCols) :
        cols \in GoldColumnVariants,
        s \in SeqsUpTo(HourlyRowChoicesSmall, MaxGoldRows - 1) \ {<<>>}}

\* A call of load_silver_data, as the first call of a session.
LoadSilverData ==
    /\ pc = "idle" /\ runs = 0
    /\ \E read_ok \in BOOLEAN :
         \E ld \in {load_silver_data(silver_store, read_ok)} :
            /\ df_silver' = ld.df
            /\ last' = [NoRun EXCEPT !.stage = "load_silver_data",
                                     !.loaded = IF ld.raised THEN "raised"
                                                ELSE IF IsEmpty(ld.df) THEN "empty" ELSE "ok",
                                     !.result = IF ld.raised THEN "failed" ELSE "returned"]
    /\ runs' = runs + 1
    /\ UNCHANGED <<bronze_df, silver_df, status, log, raw_source, bronze_store,
                   silver_store, gold_store, df_gold, pc, trace>>
    /\ UNCHANGED bronze_vars

\* A call of aggregate_to_gold with the table load_silver_data returned.
AggregateToGold ==
    /\ pc = "idle"
    /\ last.stage = "load_silver_data" /\ last.result = "returned"
    /\ \E res \in {aggregate_to_gold(df_silver)} :
            /\ df_silver' = res.df_silver
            /\ df_gold' = res.df
            /\ last' = [NoRun EXCEPT !.stage = "aggregate_to_gold",
                                     !.loaded = last.loaded,
                                     !.transformed = TRUE,
                                     !.transform_raised = res.raised,
                                     !.result = IF res.raised THEN "failed" ELSE "returned"]
    /\ UNCHANGED <<bronze_df, silver_df, status, log, raw_source, bronze_store,
                   silver_store, gold_store, pc, trace, runs>>
    /\ UNCHANGED bronze_vars

InitGold ==
    /\ IngestionIdle
    /\ silver_store \in GoldStores
    /\ raw_source = EmptyFrame
    /\ bronze_store = EmptyFrame
    /\ gold_store = EmptyStore
    /\ bronze_df = EmptyFrame
    /\ silver_df = EmptyFrame
    /\ status = "ready"
    /\ log = [dropped_count |-> 0, duplicates |-> 0]
    /\ df_silver = EmptyFrame
    /\ df_gold = EmptyFrame
    /\ last = NoRun
    /\ pc = "idle"
    /\ trace = <<>>
    /\ runs = 0

NextGold ==
    \/ LoadSilverData
    \/ AggregateToGold
    \/ MainGold
    \/ WriteGoldDataset

SpecGold == InitGold /\ [][NextGold]_vars

\* ------------------------------------------------------------------------
\* run_ingestion_bronze.py: the workers of main
\* ------------------------------------------------------------------------

\* Number of years of YEARS_TO_PROCESS the model runs.
MaxYears == 3

\* date.today().year on the day of the run.
CURRENT_YEAR == 2025

\* range(CURRENT_YEAR - 4, CURRENT_YEAR + 1), cut to the last MaxYears years.
YEARS_TO_PROCESS == (CURRENT_YEAR - MaxYears + 1)..CURRENT_YEAR

MAX_WORKERS == 5

\* What the source and the disk do for a year: the download fails; the
\* year gives no table (the ZIP has no file of the station, none that can
\* be read, or pd.concat raises); an exception leaves process_year (the
\* ZIP cannot be opened); the year is read and written; the year is read
\* and the write raises.
YearOutcomes ==
    {"download_failed", "no_data", "raised", "written", "write_failed"}

BronzeColumns == {"Hora UTC", "source_file", "partition_year"}

BronzePartitionCols == <<"partition_year">>

\* The number of records of the station's file of a year.
RecordsOf(year) == year - CURRENT_YEAR + MaxYears

\* Mutant: the partition column holds the current year for every year.
year_df_CurrentYear(year) ==
    [columns |-> BronzeColumns,
     rows |-> <<>> \o [i \in 1..RecordsOf(year) |->
                [index |-> i - 1,
                 cells |-> [c \in BronzeColumns |->
                              CASE c = "Hora UTC"       -> i - 1
                                [] c = "source_file"    -> <<"INMET_A320_", year>>
                                [] c = "partition_year" -> CURRENT_YEAR]]]]

\* year_df: the records of the files of the year, with the name of their
\* file and with partition_year = year in every row.
year_df(year) ==
    [columns |-> BronzeColumns,
     rows |-> <<>> \o [i \in 1..RecordsOf(year) |->
                [index |-> i - 1,
                 cells |-> [c \in BronzeColumns |->
                              CASE c = "Hora UTC"       -> i - 1
                                [] c = "source_file"    -> <<"INMET_A320_", year>>
                                [] c = "partition_year" -> year]]]]

\* What an earlier run left in the partition of a year.
EarlierFile(year) ==
    << [c \in BronzeColumns |->
          CASE c = "Hora UTC"       -> 0
            [] c = "source_file"    -> <<"earlier", year>>
            [] c = "partition_year" -> year] >>

\* The Bronze dataset as an earlier run over the same years left it.
EarlierDataset ==
    [columns |-> BronzeColumns,
     parts |-> NoParts @@ [p \in {<<y>> : y \in YEARS_TO_PROCESS} |-> <<EarlierFile(p[1])>>]]

\* write_bronze_dataset: nothing for an empty table; an exception of the
\* write (write_ok false) is logged and not raised again, and leaves the
\* dataset as it was.
write_bronze_dataset(df, store, partition_cols, write_ok) ==
    IF IsEmpty(df) \/ ~write_ok THEN store
    ELSE DeleteMatching(store, df, partition_cols)

\* A task of the executor: submitted, running (at the download, at the
\* reading of the files, at the write), done with a result or an
\* exception, and taken by the as_completed loop of main.
Running == {"download", "read", "write"}

Submitted(year) == [at |-> "submitted", result |-> 0, raised |-> FALSE, calls |-> 0]

\* A worker thread of the pool takes the task of a year and calls process_year.
StartYear ==
    \E year \in DOMAIN future_to_year :
        /\ future_to_year[year].at = "submitted"
        /\ Cardinality({y \in DOMAIN future_to_year : future_to_year[y].at \in Running})
              < MAX_WORKERS
        /\ future_to_year' = [future_to_year EXCEPT ![year].at = "download",
                                                    ![year].calls = @ + 1]
        /\ UNCHANGED <<year_source, bronze_dataset, bronze_before, total_records_ingested, pipeline_vars>>

\* process_year, lines 161-165: download_zip_file; return 0 without buffer.
DownloadZip ==
    \E year \in DOMAIN future_to_year :
        /\ future_to_year[year].at = "download"
        /\ future_to_year' =
              IF year_source[year] = "download_failed"
              THEN [future_to_year EXCEPT ![year].at = "done", ![year].result = 0]
              ELSE [future_to_year EXCEPT ![year].at = "read"]
        /\ UNCHANGED <<year_source, bronze_dataset, bronze_before, total_records_ingested, pipeline_vars>>

\* process_year, lines 167-187: the files of the ZIP are read and put
\* together; return 0 without a table; an exception of the ZIP reader
\* leaves process_year.
ReadYear ==
    \E year \in DOMAIN future_to_year :
        /\ future_to_year[year].at = "read"
        /\ future_to_year' =
              CASE year_source[year] = "raised" ->
                     [future_to_year EXCEPT ![year].at = "done", ![year].raised = TRUE]
                [] year_source[year] = "no_data" ->
                     [future_to_year EXCEPT ![year].at = "done", ![year].result = 0]
                [] OTHER ->
                     [future_to_year EXCEPT ![year].at = "write"]
        /\ UNCHANGED <<year_source, bronze_dataset, bronze_before, total_records_ingested, pipeline_vars>>

\* process_year, lines 189-198: write_bronze_dataset inside the thread,
\* then return len(year_df), whether the write raised or not.
WriteYear ==
    \E year \in DOMAIN future_to_year :
        /\ future_to_year[year].at = "write"
        /\ bronze_dataset' =
              write_bronze_dataset(year_df(year), bronze_dataset, BronzePartitionCols,
                                   year_source[year] # "write_failed")
        /\ future_to_year' = [future_to_year EXCEPT ![year].at = "done",
                                                    ![year].result = Len(year_df(year).rows)]
        /\ UNCHANGED <<year_source, bronze_before, total_records_ingested, pipeline_vars>>

\* main, lines 229-241: the as_completed loop takes a finished future,
\* adds a positive result to the total and logs an exception.
CollectYear ==
    \E year \in DOMAIN future_to_year :
        /\ future_to_year[year].at = "done"
        /\ future_to_year' = [future_to_year EXCEPT ![year].at = "collected"]
        /\ total_records_ingested' =
              IF ~future_to_year[year].raised /\ future_to_year[year].result > 0
              THEN total_records_ingested + future_to_year[year].result
              ELSE total_records_ingested
        /\ UNCHANGED <<year_source, bronze_dataset, bronze_before, pipeline_vars>>

\* main after executor.submit for every year, over a path that does not
\* exist yet or over the dataset of an earlier run.
InitBronze ==
    /\ year_source \in [YEARS_TO_PROCESS -> YearOutcomes]
    /\ future_to_year = [year \in YEARS_TO_PROCESS |-> Submitted(year)]
    /\ bronze_before \in {EmptyStore, EarlierDataset}
    /\ bronze_dataset = bronze_before
    /\ total_records_ingested = 0
    /\ bronze_df = EmptyFrame
    /\ silver_df = EmptyFrame
    /\ status = "ready"
    /\ log = [dropped_count |-> 0, duplicates |-> 0]
    /\ StageIdle

NextBronze ==
    \/ StartYear
    \/ DownloadZip
    \/ ReadYear
    \/ WriteYear
    \/ CollectYear

SpecBronze == InitBronze /\ [][NextBronze]_vars

\* ------------------------------------------------------------------------
\* Vocabulary of the properties
\* ------------------------------------------------------------------------

PrecipitationCol == "precipitacao_total_horario_mm"

HumidityHourlyCol == "umidade_relativa_ar_horaria_percent"

HumidityVariantCols ==
    {"umidade_rel_max_hora_ant_percent", "umidade_rel_min_hora_ant_percent"}

TemperatureFamily ==
    { "temperatura_ar_bulbo_seco_horaria_c", "temperatura_ponto_orvalho_c",
      "temperatura_max_hora_ant_c", "temperatura_min_hora_ant_c",
      "temperatura_orvalho_max_hora_ant_c", "temperatura_orvalho_min_hora_ant_c" }

\* The declared plausibility range of a column, on a value in thousandths.
InDeclaredRange(c, v) ==
    /\ c = PrecipitationCol => v >= 0
    /\ c = HumidityHourlyCol => (0 <= v /\ v <= 100 * Scale)
    /\ c \in TemperatureFamily => (-20 * Scale <= v /\ v <= 50 * Scale)

Done == status = "done"

\* The stage has run on a table that has every column of the rename map.
DoneFull == Done /\ bronze_df.columns = CanonicalNames

SilverRows == {silver_df.rows[i] : i \in 1..Len(silver_df.rows)}

InputIdx == 1..Len(bronze_df.rows)

\* The input row an output row comes from (the index is kept by the stage).
InputOf(o) == bronze_df.rows[o.index + 1]

\* What the stage reads from each input row: the UTC instant it parses
\* (NaT when the row does not parse), the local timestamp and the key.
Stamps ==
    MapRows(bronze_df.rows,
            LAMBDA r : [utc   |-> AddTimestamps(r).cells["timestamp_utc"],
                        local |-> TzConvert(AddTimestamps(r).cells["timestamp_utc"]),
                        file  |-> r.cells["source_file"]])

IsParseable(st) == st.local # NaT

KeyOf(st) == <<st.local, st.file>>

OutputKey(o) == <<o.cells["timestamp_local"], o.cells["source_file"]>>

Text105 == <<"1", "0", "5">>

TextMinus5 == <<"-", "5">>

TextDashes == <<"-", "-", "-">>

\* ------------------------------------------------------------------------
\* Properties
\* ------------------------------------------------------------------------

\* C1: after process_bronze_to_silver every present precipitation is >= 0,
\* every present hourly humidity is in [0, 100] and every present value of
\* a temperature column is in [-20, 50]; a present value is the input's
\* number, and an input number outside its range is absent in the output.
C1_PlausibilityRanges ==
    Done =>
      \A o \in SilverRows :
        \A c \in (DOMAIN o.cells) \cap ({PrecipitationCol, HumidityHourlyCol} \cup TemperatureFamily) :
          /\ ~o.cells[c].nan =>
                /\ InDeclaredRange(c, o.cells[c].v)
                /\ o.cells[c] = ToNumericCell(InputOf(o).cells[c])
          /\ \A b \in {ToNumericCell(InputOf(o).cells[c])} :
                (~b.nan /\ ~InDeclaredRange(c, b.v)) => o.cells[c].nan

\* C1 witness: humidity '105' and temperature '105' came out absent, and a
\* precipitation of '-5' came out absent.
C1_Witness ==
    /\ DoneFull
    /\ \E o \in SilverRows :
          /\ InputOf(o).cells[HumidityHourlyCol] = Text105
          /\ o.cells[HumidityHourlyCol].nan
          /\ o.cells["temperatura_ar_bulbo_seco_horaria_c"].nan
    /\ \E o \in SilverRows :
          /\ InputOf(o).cells[PrecipitationCol] = TextMinus5
          /\ o.cells[PrecipitationCol].nan

\* C2 (as claimed): every present value of every relative-humidity column,
\* the max/min variants included, lies in [0, 100].
C2_AllHumidityVariantsInRange ==
    Done =>
      \A o \in SilverRows :
        \A c \in (DOMAIN o.cells) \cap (HumidityVariantCols \cup {HumidityHourlyCol}) :
          ~o.cells[c].nan => (0 <= o.cells[c].v /\ o.cells[c].v <= 100 * Scale)

\* C3: no two rows of the returned table share (timestamp_local, source_file).
C3_UniqueKey ==
    Done =>
      \A i, j \in 1..Len(silver_df.rows) :
        i # j => OutputKey(silver_df.rows[i]) # OutputKey(silver_df.rows[j])

\* C3 witness: two input rows had the same key and one row was removed.
C3_Witness ==
    LET st == Stamps IN
    /\ Done
    /\ log.duplicates > 0
    /\ \E i, j \in InputIdx : i < j /\ IsParseable(st[i]) /\ KeyOf(st[i]) = KeyOf(st[j])
    /\ Len(silver_df.rows) = 1

\* C4: the output row of a key is the first input row with that key, and
\* carries that row's measurements after coercion and the range rules.
C4_FirstOccurrenceKept ==
    LET st == Stamps IN
    Done =>
      \A o \in SilverRows :
        /\ o.index + 1 \in InputIdx
        /\ KeyOf(st[o.index + 1]) = OutputKey(o)
        /\ \A k \in InputIdx : KeyOf(st[k]) = OutputKey(o) => o.index + 1 <= k
        /\ \A c \in (DOMAIN o.cells) \cap numeric_cols :
              o.cells[c] = ApplyQuality(CoerceNumeric(InputOf(o))).cells[c]

\* C4 witness: two rows with one key and different measurement texts; the
\* output holds the first one.
C4_Witness ==
    LET st == Stamps IN
    /\ DoneFull
    /\ Len(bronze_df.rows) = 2
    /\ KeyOf(st[1]) = KeyOf(st[2]) /\ IsParseable(st[1])
    /\ bronze_df.rows[1].cells[PrecipitationCol] # bronze_df.rows[2].cells[PrecipitationCol]
    /\ Len(silver_df.rows) = 1
    /\ silver_df.rows[1].index = 0
    /\ silver_df.rows[1].cells[PrecipitationCol]
         = ToNumericCell(bronze_df.rows[1].cells[PrecipitationCol])

\* C5: the rules on values never remove a row: the output has one row per
\* distinct key of the parseable input rows, that is the parseable rows
\* minus the duplicates removed, whatever the measurements hold.
C5_RowCount ==
    LET st == Stamps IN
    Done =>
      /\ Len(silver_df.rows) = Cardinality({KeyOf(st[k]) : k \in {n \in InputIdx : IsParseable(st[n])}})
      /\ Len(silver_df.rows)
           = Cardinality({n \in InputIdx : IsParseable(st[n])}) - log.duplicates
      /\ \A k \in InputIdx :
            IsParseable(st[k]) => \E o \in SilverRows : OutputKey(o) = KeyOf(st[k])

\* C5 witness: a row whose measurements are all malformed, and one whose
\* precipitation and humidity are out of range, are both in the output.
C5_Witness ==
    /\ DoneFull
    /\ \E o \in SilverRows :
          /\ InputOf(o).cells[PrecipitationCol] = TextDashes
          /\ \A c \in (DOMAIN o.cells) \cap numeric_cols : o.cells[c].nan
    /\ \E o \in SilverRows :
          /\ InputOf(o).cells[PrecipitationCol] = TextMinus5
          /\ o.cells[PrecipitationCol].nan

\* Days since 0000-03-01 of a calendar date (proleptic Gregorian).
DayNumber(y, m, d) ==
    LET yy == IF m <= 2 THEN y - 1 ELSE y
        mm == IF m <= 2 THEN m + 9 ELSE m - 3
    IN  365 * yy + (yy \div 4) - (yy \div 100) + (yy \div 400)
        + ((153 * mm + 2) \div 5) + d - 1

\* Minutes of a wall-clock reading on that day count.
Minutes(t) == (DayNumber(t.y, t.mo, t.d) * 24 + t.h) * 60 + t.mi

At(y, mo, d, h, mi) == [y |-> y, mo |-> mo, d |-> d, h |-> h, mi |-> mi]

\* The texts of the inputs that are no date of the format and no time of day.
BadDates ==
    { <<"2", "0", "2", "3", "/", "0", "2", "/", "3", "0">>,
      <<"0", "1", "/", "0", "1", "/", "2", "0", "2", "3">> }

BadHours ==
    { <<"2", "5", "0", "0", " ", "U", "T", "C">>,
      <<"0", "4", "6", "0", " ", "U", "T", "C">> }

BadTimestamp(k) ==
    \/ bronze_df.rows[k].cells["data"] \in BadDates
    \/ bronze_df.rows[k].cells["hora_utc"] \in BadHours

\* Midnight UTC of the date written in input row k.
MidnightOf(k) == ToDatetime(bronze_df.rows[k].cells["data"] \o <<" ", "0", "0", "0", "0">>)

RequiredCols == {"data", "hora_utc", "source_file"}

\* C6: a row whose date and hour do not parse is dropped without raising,
\* every row that parses is kept up to deduplication, and the drop count
\* is the number of rows that do not parse; the stage raises only when a
\* required column is missing.
C6_UnparseableDropped ==
    LET st == Stamps IN
    /\ status = "raised" => ~(RequiredCols \subseteq bronze_df.columns)
    /\ Done =>
         /\ log.dropped_count = Cardinality({k \in InputIdx : BadTimestamp(k)})
         /\ \A o \in SilverRows :
               ~BadTimestamp(o.index + 1) /\ o.cells["timestamp_local"] # NaT
         /\ \A k \in InputIdx :
               ~BadTimestamp(k) =>
                  \E o \in SilverRows :
                     /\ o.cells["source_file"] = bronze_df.rows[k].cells["source_file"]
                     /\ o.cells["timestamp_local"] = st[k].local

\* C6 witness: a table with a row of hour '2500' and a row that parses; one
\* row was dropped and the other is in the output.
C6_Witness ==
    /\ Done
    /\ Len(bronze_df.rows) = 2
    /\ bronze_df.rows[1].cells["hora_utc"] = <<"2", "5", "0", "0", " ", "U", "T", "C">>
    /\ log.dropped_count = 1
    /\ Len(silver_df.rows) = 1
    /\ silver_df.rows[1].index = 1

\* Texts of the inputs that are not numbers.
NonNumericTexts == {TextDashes, <<"0", ",", "1">>, <<>>}

C8_HourNormalized ==
    Done =>
      \A k \in InputIdx :
        LET hora == bronze_df.rows[k].cells["hora_utc"]
            file == bronze_df.rows[k].cells["source_file"]
            HasRowAt(minutes, y, mo) ==
               \E o \in SilverRows :
                  /\ o.cells["source_file"] = file
                  /\ Minutes(o.cells["timestamp_local"]) + 60 * TARGET_TIMEZONE = minutes
                  /\ o.cells["partition_year"] = y
                  /\ o.cells["partition_month"] = mo
        IN  bronze_df.rows[k].cells["data"] \notin BadDates =>
              \A d \in {MidnightOf(k)} :
                /\ hora \in {Hour2400, HourZero, <<"0", " ", "U", "T", "C">>}
                      => HasRowAt(Minutes(d), d.y, d.mo)
                /\ hora \in {<<"1", "0", "0", " ", "U", "T", "C">>,
                             <<"0", "1", "0", "0", " ", "U", "T", "C">>}
                      => HasRowAt(Minutes(d) + 60, d.y, d.mo)

\* C8 witness: '2400 UTC' on 2023/01/01 is in the output at 2022-12-31
\* 21:00 local, partition 2023/1.
C8_Witness ==
    /\ Done
    /\ \E o \in SilverRows :
          /\ InputOf(o).cells["hora_utc"] = Hour2400
          /\ InputOf(o).cells["data"] = DateMain
          /\ o.cells["timestamp_local"] = At(2022, 12, 31, 21, 0)
          /\ o.cells["partition_year"] = 2023
          /\ o.cells["partition_month"] = 1

\* C9: timestamp_local is the parsed UTC instant three hours earlier on
\* the clock (04:00 UTC is 01:00 of the same day), so two rows of one file
\* whose UTC hours differ by one are both in the output, one hour apart.
C9_LocalIsUtcMinus3 ==
    LET st == Stamps IN
    Done =>
      /\ \A o \in SilverRows :
            /\ Minutes(o.cells["timestamp_local"]) + 60 * TARGET_TIMEZONE
                 = Minutes(st[o.index + 1].utc)
            /\ (InputOf(o).cells["data"] = DateMain /\ InputOf(o).cells["hora_utc"] = HourMain)
                  => o.cells["timestamp_local"] = At(2023, 1, 1, 1, 0)
      /\ \A i, j \in InputIdx :
            (/\ IsParseable(st[i]) /\ IsParseable(st[j])
             /\ bronze_df.rows[i].cells["source_file"] = bronze_df.rows[j].cells["source_file"]
             /\ Minutes(st[j].utc) - Minutes(st[i].utc) = 60)
            => \E oi, oj \in SilverRows :
                  /\ OutputKey(oi) = KeyOf(st[i]) /\ OutputKey(oj) = KeyOf(st[j])
                  /\ oi # oj
                  /\ Minutes(oj.cells["timestamp_local"])
                       - Minutes(oi.cells["timestamp_local"]) = 60

\* C9 witness: 00:00 and 01:00 UTC of one file and day are both in the
\* output, at 21:00 and 22:00 of the day before.
C9_Witness ==
    /\ Done
    /\ Len(silver_df.rows) = 2
    /\ InputOf(silver_df.rows[1]).cells["hora_utc"] = HourZero
    /\ silver_df.rows[1].cells["timestamp_local"] = At(2022, 12, 31, 21, 0)
    /\ silver_df.rows[2].cells["timestamp_local"] = At(2022, 12, 31, 22, 0)
    /\ silver_df.rows[1].cells["source_file"] = silver_df.rows[2].cells["source_file"]

\* The calendar day after t.
NextDay(t) ==
    IF t.d < DaysInMonth(t.y, t.mo) THEN [t EXCEPT !.d = t.d + 1]
    ELSE IF t.mo < 12 THEN [t EXCEPT !.mo = t.mo + 1, !.d = 1]
    ELSE [t EXCEPT !.y = t.y + 1, !.mo = 1, !.d = 1]

\* The UTC reading of a local timestamp.
UtcOfLocal(t) ==
    IF t.h + TARGET_TIMEZONE < 24 THEN [t EXCEPT !.h = t.h + TARGET_TIMEZONE]
    ELSE [NextDay(t) EXCEPT !.h = t.h + TARGET_TIMEZONE - 24]

\* C10: partition_year and partition_month are the year and month of the
\* row's UTC instant, not of its local timestamp and not the Bronze
\* partition_year.
C10_PartitionFromUtc ==
    LET st == Stamps IN
    Done =>
      \A o \in SilverRows :
        /\ o.cells["partition_year"] = UtcOfLocal(o.cells["timestamp_local"]).y
        /\ o.cells["partition_month"] = UtcOfLocal(o.cells["timestamp_local"]).mo
        /\ o.cells["partition_year"] = st[o.index + 1].utc.y
        /\ o.cells["partition_month"] = st[o.index + 1].utc.mo

\* C10 witness: 00:00 UTC of 2023/02/01 is in partition 2023/2 with a
\* local timestamp in January, and a row of 2023 that Bronze had under
\* partition_year 1999 is in partition 2023.
C10_Witness ==
    /\ Done
    /\ \E o \in SilverRows :
          /\ o.cells["timestamp_local"] = At(2023, 1, 31, 21, 0)
          /\ o.cells["partition_year"] = 2023
          /\ o.cells["partition_month"] = 2
    /\ \E o \in SilverRows :
          /\ InputOf(o).cells["partition_year"] = 1999
          /\ o.cells["partition_year"] = 2023

\* ------------------------------------------------------------------------
\* C11: the Silver stage is idempotent
\* ------------------------------------------------------------------------

\* The rows a dataset holds, file after file.
StoredCells(store) == RowsInDirOrder(store, DOMAIN store.parts)

\* C11: a run of the Silver stage that follows a run of the Silver stage
\* on the same Bronze input, both having written, leaves the Silver
\* dataset as the first run left it, and no row is stored twice.
C11_SilverIdempotent ==
    [][ ( /\ last.stage = "main_silver" /\ last.wrote
          /\ last'.stage = "main_silver" /\ last'.wrote
          /\ last'.streak = last.streak + 1
          /\ bronze_store' = bronze_store )
        => /\ silver_store' = silver_store
           /\ \A i \in 1..Len(StoredCells(silver_store')) :
                 CountIn(StoredCells(silver_store'), StoredCells(silver_store')[i]) = 1
      ]_vars

\* C11 witness: the Silver stage has written twice in a row a table of two
\* partitions, and the dataset holds two rows.
C11_Witness ==
    /\ last.stage = "main_silver"
    /\ last.streak = 2
    /\ Cardinality(DOMAIN silver_store.parts) = 2
    /\ Len(StoredCells(silver_store)) = 2

\* ------------------------------------------------------------------------
\* C12: an empty upstream table short-circuits the stage
\* ------------------------------------------------------------------------

EntryPoints == {"main_silver", "main_gold"}

Writers == {"write_silver_dataset", "write_gold_dataset"}

\* C12: a call of main_silver or main_gold that loads an empty table, and a
\* call of a writer with an empty table, transforms nothing, leaves both
\* datasets as they were, and returns without an exception.
C12_EmptyShortCircuits ==
    [][ (last'.stage \in EntryPoints \cup Writers /\ last'.loaded = "empty")
        => /\ silver_store' = silver_store
           /\ gold_store' = gold_store
           /\ ~last'.transformed
           /\ last'.stage \in EntryPoints => ~last'.writer_called
           /\ ~last'.wrote
           /\ ~StageFailed(last')
           /\ last'.result = "returned"
      ]_vars

\* C12 witness: a run of the pipeline over an empty Bronze dataset and a
\* Silver dataset without rows has ended; both stages returned normally.
C12_Witness ==
    /\ pc = "idle"
    /\ Len(trace) = 7
    /\ bronze_store = EmptyFrame
    /\ silver_store = EmptySilverDataset
    /\ gold_store = EmptyStore
    /\ trace[4] = [stage |-> "main_silver", event |-> "return", failed |-> FALSE]
    /\ trace[6] = [stage |-> "main_gold", event |-> "return", failed |-> FALSE]
    /\ last.stage = "main_gold"
    /\ last.loaded = "empty"

\* ------------------------------------------------------------------------
\* C13: a storage write failure is fatal for the caller
\* ------------------------------------------------------------------------

\* C13: whenever the partitioned write of a writer or of a stage raised,
\* the call ended with an exception for its caller.
C13_WriteFailureIsFatal ==
    last.write_raised => last.result = "failed"

\* ------------------------------------------------------------------------
\* C15, C16: the order of the stages and the end of a run on a failure
\* ------------------------------------------------------------------------

StageNames == <<"main_bronze", "main_silver", "main_gold">>

\* The events of the stages in the trace of the run, without its last line.
StageTrace == SelectSeq(trace, LAMBDA e : e.stage # "run_full_pipeline")

\* C15: the stages of a run are called in the order Bronze, Silver, Gold,
\* each at most once and each only after the one before it has returned;
\* a run that ended without an exception reaching the orchestrator has
\* called all three and reports success.
C15_StagesInOrder ==
    /\ Len(StageTrace) <= 6
    /\ \A i \in 1..Len(StageTrace) :
          /\ StageTrace[i].stage = StageNames[(i + 1) \div 2]
          /\ i % 2 = 1 => StageTrace[i].event = "call"
          /\ i % 2 = 0 => StageTrace[i].event \in {"return", "raise"}
          /\ (i % 2 = 1 /\ i > 1) => StageTrace[i - 1].event = "return"
    /\ pc = "silver" => Len(StageTrace) = 2
    /\ pc = "gold" => Len(StageTrace) = 4
    /\ (pc = "idle" /\ trace # <<>>
          /\ \A i \in 1..Len(trace) : trace[i].event # "raise")
       => /\ Len(StageTrace) = 6
          /\ trace = StageTrace \o <<PipelineEnd(TRUE)>>

\* C15 witness: a run in which no stage met an exception has ended, and
\* the Gold dataset was written.
C15_Witness ==
    /\ pc = "idle"
    /\ Len(trace) = 7
    /\ \A i \in 1..Len(trace) : ~trace[i].failed
    /\ trace[7] = PipelineEnd(TRUE)
    /\ last.stage = "main_gold"
    /\ last.wrote

\* The stage of event e failed: its exception reached the orchestrator, or
\* it gave up its work on an exception that it caught itself.  A year that
\* fails inside the Bronze stage is not counted as a failure of the stage.
StageFailure(e) ==
    \/ e.event = "raise"
    \/ e.failed /\ e.stage \in {"main_silver", "main_gold"}

\* C16: no stage is called after a stage that failed.
C16_FailureStopsPipeline ==
    \A i, j \in 1..Len(trace) :
        (i < j /\ StageFailure(trace[i])) => trace[j].event # "call"

\* ------------------------------------------------------------------------
\* Vocabulary of the Gold properties
\* ------------------------------------------------------------------------

\* aggregate_to_gold was the last call, on the table of the Silver dataset.
Aggregated == last.stage = "aggregate_to_gold"

\* The last call reached aggregate_to_gold, directly or inside main_gold.
ReachedAggregate == last.stage \in {"aggregate_to_gold", "main_gold"} /\ last.transformed

\* ------------------------------------------------------------------------
\* C14: a missing station column is an error, a missing measurement is not
\* ------------------------------------------------------------------------

\* C14: aggregate_to_gold raises exactly when the hourly table has no
\* municipio column, whatever measurement columns it has; it then returns
\* no table and the Gold dataset is not written.
C14_MissingStationIsFatal ==
    ReachedAggregate =>
        /\ last.transform_raised <=> "municipio" \notin silver_store.columns
        /\ "municipio" \notin silver_store.columns =>
              /\ df_gold = EmptyFrame
              /\ ~last.writer_called
              /\ ~last.wrote
              /\ gold_store = EmptyStore

\* C14 witness: main_gold loaded a table with rows and without municipio,
\* the aggregation raised, and nothing was written.
C14_Witness ==
    /\ last.stage = "main_gold"
    /\ last.loaded = "ok"
    /\ "municipio" \notin silver_store.columns
    /\ last.transform_raised
    /\ gold_store = EmptyStore

\* ------------------------------------------------------------------------
\* C17: one row for each (calendar date, station) pair
\* ------------------------------------------------------------------------

\* The rows of the hourly table the Gold stage reads.
HourlyRows == StoredCells(silver_store)

LowerLetters ==
    << "a", "b", "c", "d", "e", "f", "g", "h", "i", "j", "k", "l", "m",
       "n", "o", "p", "q", "r", "s", "t", "u", "v", "w", "x", "y", "z" >>

UpperLetters ==
    << "A", "B", "C", "D", "E", "F", "G", "H", "I", "J", "K", "L", "M",
       "N", "O", "P", "Q", "R", "S", "T", "U", "V", "W", "X", "Y", "Z" >>

\* The station identifier with spaces as underscores and in upper case.
StationToken(m) ==
    IF m = NA THEN NA
    ELSE [i \in 1..Len(m) |->
            IF m[i] = " " THEN "_"
            ELSE IF \E k \in 1..Len(LowerLetters) : LowerLetters[k] = m[i]
            THEN UpperLetters[CHOOSE k \in 1..Len(LowerLetters) : LowerLetters[k] = m[i]]
            ELSE m[i]]

\* The calendar date of an hourly row.
CalendarDate(c) ==
    [y |-> c["timestamp_local"].y, mo |-> c["timestamp_local"].mo,
     d |-> c["timestamp_local"].d]

PairOf(c) == <<CalendarDate(c), StationToken(c["municipio"])>>

\* The pairs of the hourly table, and those of its rows that have a station.
AllPairs == {PairOf(HourlyRows[i]) : i \in 1..Len(HourlyRows)}

StationPairs == {p \in AllPairs : p[2] # NA}

\* The pair of a row of the table aggregate_to_gold returned.
GoldPair(i) ==
    <<df_gold.rows[i].cells["data_local"], df_gold.rows[i].cells["municipio"]>>

\* The returned table has one row for each pair of ps and no other row.
OneRowPerPair(ps) ==
    /\ \A p \in ps : Cardinality({i \in 1..Len(df_gold.rows) : GoldPair(i) = p}) = 1
    /\ \A i \in 1..Len(df_gold.rows) : GoldPair(i) \in ps

AggregatedOk == Aggregated /\ ~last.transform_raised

\* C17 as stated: the returned table has exactly one row for every pair
\* that occurs in the hourly table.
C17_OneRowPerPair_Original ==
    AggregatedOk => OneRowPerPair(AllPairs)

\* C17: when the hourly table has at least one source column of a metric,
\* the returned table has exactly one row for every (calendar date,
\* normalised station) pair of the rows that have a station, also for a
\* pair whose measurements are all absent, and no other row; when it has no
\* such column the returned table is empty.
C17_OneRowPerPair ==
    AggregatedOk =>
        IF silver_store.columns \cap SourceColumns = {}
        THEN df_gold = EmptyFrame
        ELSE OneRowPerPair(StationPairs)

\* C17 witness: two rows of one day, one without any measurement, were
\* aggregated to two rows, and the maximum and the mean of one are absent.
C17_Witness ==
    /\ AggregatedOk
    /\ Len(HourlyRows) = 2
    /\ Len(df_gold.rows) = 2
    /\ \E i \in 1..2 :
          /\ df_gold.rows[i].cells["municipio"] = StationABNorm
          /\ df_gold.rows[i].cells["temp_maxima_diaria_c"].nan
          /\ df_gold.rows[i].cells["temp_media_diaria_c"].nan

\* ------------------------------------------------------------------------
\* C18: each metric is its declared operator over the values of its group
\* ------------------------------------------------------------------------

\* The source column and the operator declared for each named metric.
DeclaredMetrics ==
    { <<"temp_maxima_diaria_c", "temperatura_max_hora_ant_c", "max">>,
      <<"vento_rajada_maxima_diaria_ms", "vento_velocidade_horaria_ms", "max">>,
      <<"temp_minima_diaria_c", "temperatura_min_hora_ant_c", "min">>,
      <<"precipitacao_total_diaria_mm", "precipitacao_total_horario_mm", "sum">>,
      <<"radiacao_total_diaria_kj_m2", "radiacao_global_kj_m2", "sum">>,
      <<"temp_media_diaria_c", "temperatura_ar_bulbo_seco_horaria_c", "mean">>,
      <<"umidade_media_diaria_percentual", "umidade_relativa_ar_horaria_percent", "mean">>,
      <<"vento_velocidade_media_diaria_ms", "vento_velocidade_horaria_ms", "mean">> }

\* The smallest step of a metric, in thousandths: 0.1 for the daily
\* precipitation and 0.01 for every other metric.
StepOf(metric) == IF metric = "precipitacao_total_diaria_mm" THEN Scale \div 10 ELSE Scale \div 100

\* The hourly rows of the group of returned row i that have a value in
\* column c.
GroupValues(i, c) ==
    {k \in 1..Len(HourlyRows) :
        /\ HourlyRows[k]["municipio"] # NA
        /\ PairOf(HourlyRows[k]) = GoldPair(i)
        /\ ~HourlyRows[k][c].nan}

RECURSIVE TotalOf(_, _)
TotalOf(ks, c) ==
    IF ks = {} THEN 0
    ELSE LET k == CHOOSE x \in ks : TRUE
         IN  HourlyRows[k][c].v + TotalOf(ks \ {k}, c)

Dist(a, b) == IF a >= b THEN a - b ELSE b - a

\* The value out is a fraction n / d rounded to the step: it is at most
\* half a step away from it.
RoundedFrom(out, n, d, step) == ~out.nan /\ 2 * Dist(out.v * d, n) <= step * d

\* The value out of a metric is operator op over the values of column c
\* in the rows ks, rounded to the step.
IsAggregate(out, op, ks, c, step) ==
    CASE op = "sum" -> RoundedFrom(out, TotalOf(ks, c), 1, step)
      [] ks = {}    -> out.nan
      [] op = "max" ->
            \E k \in ks : /\ \A j \in ks : HourlyRows[j][c].v <= HourlyRows[k][c].v
                          /\ RoundedFrom(out, HourlyRows[k][c].v, 1, step)
      [] op = "min" ->
            \E k \in ks : /\ \A j \in ks : HourlyRows[j][c].v >= HourlyRows[k][c].v
                          /\ RoundedFrom(out, HourlyRows[k][c].v, 1, step)
      [] op = "mean" -> RoundedFrom(out, TotalOf(ks, c), Cardinality(ks), step)

\* C18: in every returned row, every named metric whose source column the
\* hourly table has is its declared operator (max, min, sum or mean) over
\* the present values of that column in the rows of the row's group, and
\* of no other row, rounded to the metric's step; max, min and mean of no
\* value are absent and the sum of no value is 0.
C18_DeclaredOperators ==
    AggregatedOk =>
        \A i \in 1..Len(df_gold.rows) :
            \A m \in DeclaredMetrics :
                m[2] \in silver_store.columns =>
                    /\ m[1] \in df_gold.columns
                    /\ IsAggregate(df_gold.rows[i].cells[m[1]], m[3],
                                   GroupValues(i, m[2]), m[2], StepOf(m[1]))

\* C18 witness: two rows of one group and a row of another were
\* aggregated; the first group has the mean 3.6 of 1.0 and 6.2 and the
\* maximum 7.21 of 2.006 and 7.206.
C18_Witness ==
    /\ AggregatedOk
    /\ Len(HourlyRows) = 3
    /\ Len(df_gold.rows) = 2
    /\ df_gold.rows[1].cells["municipio"] = StationABNorm
    /\ df_gold.rows[1].cells["temp_media_diaria_c"] = Num(3600)
    /\ df_gold.rows[1].cells["temp_maxima_diaria_c"] = Num(7210)
    /\ df_gold.rows[2].cells["municipio"] = <<"B">>

\* ------------------------------------------------------------------------
\* C19: the daily temperature range
\* ------------------------------------------------------------------------

TempMax == "temp_maxima_diaria_c"

TempMin == "temp_minima_diaria_c"

Amplitude == "amplitude_termica_diaria_c"

\* The amplitude column exists only when the maximum and the minimum exist.
AmplitudeOnlyWithBoth ==
    Amplitude \in df_gold.columns => {TempMax, TempMin} \subseteq df_gold.columns

\* Returned row i has a maximum and a minimum.
BothPresent(i) ==
    /\ {TempMax, TempMin} \subseteq df_gold.columns
    /\ ~df_gold.rows[i].cells[TempMax].nan
    /\ ~df_gold.rows[i].cells[TempMin].nan

\* C19 as stated: the amplitude of a row is the maximum of that row minus
\* the minimum of that row.
C19_Amplitude_Original ==
    AggregatedOk =>
        /\ AmplitudeOnlyWithBoth
        /\ \A i \in 1..Len(df_gold.rows) :
              BothPresent(i) =>
                 /\ Amplitude \in df_gold.columns
                 /\ ~df_gold.rows[i].cells[Amplitude].nan
                 /\ df_gold.rows[i].cells[Amplitude].v =
                       df_gold.rows[i].cells[TempMax].v - df_gold.rows[i].cells[TempMin].v

\* C19: the amplitude column exists exactly when the maximum and the
\* minimum columns exist; in a row that has both, the amplitude is the
\* greatest hourly maximum of the group minus its least hourly minimum,
\* rounded to two decimal places, so it is at most 0.01 away from the
\* row's maximum minus the row's minimum.
C19_Amplitude ==
    AggregatedOk =>
        /\ AmplitudeOnlyWithBoth
        /\ {TempMax, TempMin} \subseteq df_gold.columns => Amplitude \in df_gold.columns
        /\ \A i \in 1..Len(df_gold.rows) :
              BothPresent(i) =>
                 /\ Amplitude \in df_gold.columns
                 /\ \E a \in GroupValues(i, "temperatura_max_hora_ant_c"),
                       b \in GroupValues(i, "temperatura_min_hora_ant_c") :
                       /\ \A k \in GroupValues(i, "temperatura_max_hora_ant_c") :
                             HourlyRows[k]["temperatura_max_hora_ant_c"].v
                                <= HourlyRows[a]["temperatura_max_hora_ant_c"].v
                       /\ \A k \in GroupValues(i, "temperatura_min_hora_ant_c") :
                             HourlyRows[k]["temperatura_min_hora_ant_c"].v
                                >= HourlyRows[b]["temperatura_min_hora_ant_c"].v
                       /\ RoundedFrom(df_gold.rows[i].cells[Amplitude],
                                      HourlyRows[a]["temperatura_max_hora_ant_c"].v
                                        - HourlyRows[b]["temperatura_min_hora_ant_c"].v,
                                      1, StepOf(Amplitude))
                 /\ Dist(df_gold.rows[i].cells[Amplitude].v,
                         df_gold.rows[i].cells[TempMax].v - df_gold.rows[i].cells[TempMin].v)
                       <= StepOf(Amplitude)

\* C19 witness: a row with maximum 2.01 (of 2.012), minimum 0.01 (of
\* 0.006) and amplitude 2.01 (of 2.006) was returned.
C19_Witness ==
    /\ AggregatedOk
    /\ \E i \in 1..Len(df_gold.rows) :
          /\ df_gold.rows[i].cells[TempMax] = Num(2010)
          /\ df_gold.rows[i].cells[TempMin] = Num(10)
          /\ df_gold.rows[i].cells[Amplitude] = Num(2010)

\* ------------------------------------------------------------------------
\* C20: the scale of the metrics
\* ------------------------------------------------------------------------

PrecipitationDaily == "precipitacao_total_diaria_mm"

\* The named metrics and the derived one.
GoldMetrics == {m[1] : m \in DeclaredMetrics} \cup {Amplitude}

\* C20: every present metric value of the returned table is a whole number
\* of steps of its scale, 0.1 for the daily precipitation and 0.01 for
\* every other metric and for the amplitude, and the daily precipitation is
\* the multiple of 0.1 nearest to the sum of the group.
C20_RoundedToScale ==
    AggregatedOk =>
        \A i \in 1..Len(df_gold.rows) :
            /\ \A c \in GoldMetrics \cap df_gold.columns :
                  ~df_gold.rows[i].cells[c].nan =>
                      df_gold.rows[i].cells[c].v % StepOf(c) = 0
            /\ PrecipitationDaily \in df_gold.columns =>
                  2 * Dist(df_gold.rows[i].cells[PrecipitationDaily].v,
                           TotalOf(GroupValues(i, PrecipitationCol), PrecipitationCol))
                     <= StepOf(PrecipitationDaily)

\* C20 witness: the hourly precipitations 0.0, 5.2 and 0.123 of one group,
\* of sum 5.323, were returned as 5.3.
C20_Witness ==
    /\ AggregatedOk
    /\ Len(df_gold.rows) = 1
    /\ Len(HourlyRows) = 3
    /\ {HourlyRows[k][PrecipitationCol] : k \in 1..3} = {Num(0), Num(5200), Num(123)}
    /\ TotalOf(GroupValues(1, PrecipitationCol), PrecipitationCol) = 5323
    /\ df_gold.rows[1].cells[PrecipitationDaily] = Num(5300)

\* ------------------------------------------------------------------------
\* C21: a metric without source column
\* ------------------------------------------------------------------------

\* The metrics whose source column the hourly table has; the amplitude
\* needs the columns of the maximum and of the minimum.
SourcedMetrics ==
    {m[1] : m \in {x \in DeclaredMetrics : x[2] \in silver_store.columns}}
    \cup (IF {"temperatura_max_hora_ant_c", "temperatura_min_hora_ant_c"}
               \subseteq silver_store.columns
          THEN {Amplitude} ELSE {})

UnsourcedMetrics == GoldMetrics \ SourcedMetrics

\* main_gold called write_gold_dataset, which built the table for storage.
HandedOver == last.stage = "main_gold" /\ last.writer_called

\* Every row of the table handed to storage has no value in column c.
AllAbsent(c) ==
    \A i \in 1..Len(last.table.rows) : last.table.rows[i].cells[c] = None

\* The aggregation result has the columns of the sourced metrics and of no
\* other metric.
AggregateOmitsUnsourced ==
    /\ AggregatedOk /\ SourcedMetrics # {} =>
          df_gold.columns \cap GoldMetrics = SourcedMetrics
    /\ HandedOver => last.arg.columns \cap GoldMetrics = SourcedMetrics

\* C21 as stated: a metric without source column has no column in the
\* aggregation result and none in the table handed to storage.
C21_UnsourcedOmitted_Original ==
    /\ AggregateOmitsUnsourced
    /\ HandedOver => last.table.columns \cap GoldMetrics = SourcedMetrics

\* C21: a metric whose source column the hourly table lacks has no column
\* in the table aggregate_to_gold returns, while every metric whose source
\* column exists has one; in the table write_gold_dataset hands to storage
\* every metric has a column, and the column of a metric without source
\* column has no value in any row.
C21_UnsourcedOmitted ==
    /\ AggregateOmitsUnsourced
    /\ HandedOver =>
          /\ GoldMetrics \subseteq last.table.columns
          /\ \A c \in UnsourcedMetrics : AllAbsent(c)

\* C21 witness: the hourly table has no precipitation column; main_gold
\* handed over a table without it from the aggregation, and the table for
\* storage has the column, empty, next to a daily mean with a value.
C21_Witness ==
    /\ HandedOver
    /\ last.wrote
    /\ PrecipitationCol \notin silver_store.columns
    /\ PrecipitationDaily \notin last.arg.columns
    /\ PrecipitationDaily \in last.table.columns
    /\ AllAbsent(PrecipitationDaily)
    /\ Len(last.table.rows) > 0
    /\ \A i \in 1..Len(last.table.rows) :
          last.table.rows[i].cells["temp_media_diaria_c"] # None

\* ------------------------------------------------------------------------
\* C22: the table handed to storage has the declared schema
\* ------------------------------------------------------------------------

\* write_gold_dataset was called, directly or by main_gold, with a table
\* that has rows.
WriterGotRows ==
    /\ last.stage \in {"main_gold", "write_gold_dataset"}
    /\ last.writer_called
    /\ ~IsEmpty(last.arg)

\* The columns of the target schema in the declared order.
DeclaredOrder ==
    << "data_local", "municipio" >>
    \o << "temp_maxima_diaria_c", "temp_minima_diaria_c",
          "precipitacao_total_diaria_mm", "temp_media_diaria_c",
          "umidade_media_diaria_percentual", "radiacao_total_diaria_kj_m2",
          "vento_velocidade_media_diaria_ms", "vento_rajada_maxima_diaria_ms",
          "amplitude_termica_diaria_c" >>
    \o << "ano", "mes" >>

DeclaredColumns == {DeclaredOrder[i] : i \in 1..Len(DeclaredOrder)}

\* C22: whenever write_gold_dataset is given a table with rows, the table
\* it hands to storage has exactly the columns of the target schema in the
\* declared order and one row for each row given; a declared metric the
\* given table lacks is there with no value in any row, a column that is
\* not declared is not there, and the call reaches the storage write (it
\* fails only if that write fails).
C22_DeclaredSchema ==
    WriterGotRows =>
        /\ last.table.schema = DeclaredOrder
        /\ last.table.columns = DeclaredColumns
        /\ Len(last.table.rows) = Len(last.arg.rows)
        /\ \A i \in 1..Len(last.table.rows) :
              DOMAIN last.table.rows[i].cells = DeclaredColumns
        /\ \A c \in (DeclaredColumns \ {"ano", "mes"}) \ last.arg.columns : AllAbsent(c)
        /\ last.wrote \/ last.write_raised
        /\ last.wrote => gold_store.columns = DeclaredColumns

\* C22 witness: write_gold_dataset was given a table with rows, without
\* the daily precipitation and with a column the schema does not have, and
\* wrote a table of the declared columns.
C22_Witness ==
    /\ last.stage = "write_gold_dataset"
    /\ WriterGotRows
    /\ last.wrote
    /\ "observacao" \in last.arg.columns
    /\ PrecipitationDaily \notin last.arg.columns
    /\ last.table.schema = DeclaredOrder
    /\ "observacao" \notin gold_store.columns
    /\ AllAbsent(PrecipitationDaily)

\* ------------------------------------------------------------------------
\* C23: the fixed-point conversion keeps absent values absent
\* ------------------------------------------------------------------------

\* The cell is a floating-point number, possibly NaN or infinite.
IsFloat(x) == "nan" \in DOMAIN x

\* The float has no finite value: it is NaN or infinite.
NotFinite(x) == x.nan \/ "inf" \in DOMAIN x

\* The decimal y has the value of v thousandths.
DecimalEquals(y, v) ==
    /\ "coef" \in DOMAIN y
    /\ IF y.exp >= -3 THEN y.coef * Pow10(3 + y.exp) = v
       ELSE y.coef = v * Pow10(-3 - y.exp)

\* The given cell and the cell handed to storage, for row i and metric c.
GivenCell(i, c) == last.arg.rows[i].cells[c]

StoredCell(i, c) == last.table.rows[i].cells[c]

\* C23: for every floating-point metric cell of a table given to
\* write_gold_dataset, the cell handed to storage is absent exactly when
\* the given value is NaN or infinite, and otherwise is a decimal of the
\* same value; in particular no absent or infinite value becomes zero.
C23_AbsentStaysAbsent ==
    WriterGotRows =>
        \A i \in 1..Len(last.arg.rows) :
            \A c \in GoldMetrics \cap last.arg.columns :
                IsFloat(GivenCell(i, c)) =>
                    /\ StoredCell(i, c) = None <=> NotFinite(GivenCell(i, c))
                    /\ ~NotFinite(GivenCell(i, c)) =>
                          DecimalEquals(StoredCell(i, c), GivenCell(i, c).v)

\* C23 witness: a table with an infinite maximum, an absent mean in one row
\* and the mean 1.01 in another was given; the first two are absent in the
\* table for storage and the third is the decimal 1.01.
C23_Witness ==
    /\ last.stage = "write_gold_dataset"
    /\ WriterGotRows
    /\ last.wrote
    /\ \E i, j \in 1..Len(last.arg.rows) :
          /\ GivenCell(i, TempMax) = Inf
          /\ StoredCell(i, TempMax) = None
          /\ GivenCell(i, "temp_media_diaria_c") = NaN
          /\ StoredCell(i, "temp_media_diaria_c") = None
          /\ GivenCell(j, "temp_media_diaria_c") = Num(1010)
          /\ StoredCell(j, "temp_media_diaria_c") = Dec(101, -2)

\* ------------------------------------------------------------------------
\* C24: the daily date and the Gold partition keys
\* ------------------------------------------------------------------------

\* load_silver_data returned a table.
Loaded == last.stage = "load_silver_data" /\ last.result = "returned"

\* The rows of the Gold dataset, each with the key of its partition.
GoldEntries ==
    UNION {UNION {{<<p, gold_store.parts[p][f][i]>> :
                      i \in 1..Len(gold_store.parts[p][f])} :
                  f \in 1..Len(gold_store.parts[p])} :
           p \in DOMAIN gold_store.parts}

\* C24: the table load_silver_data returns has in every row the date of
\* the row's local timestamp as data_local; in every table handed to
\* storage ano and mes are the year and the month of the row's data_local;
\* every row of the Gold dataset lies in the partition (ano, mes,
\* municipio) of its own values, in that order, and its date, year and
\* month are those of the local timestamp of an hourly row of its station.
C24_LocalDatePartitions ==
    /\ Loaded =>
          \A i \in 1..Len(df_silver.rows) :
              df_silver.rows[i].cells["data_local"] = CalendarDate(df_silver.rows[i].cells)
    /\ WriterGotRows =>
          \A i \in 1..Len(last.table.rows) :
              /\ StoredCell(i, "data_local") = GivenCell(i, "data_local")
              /\ StoredCell(i, "ano") = GivenCell(i, "data_local").y
              /\ StoredCell(i, "mes") = GivenCell(i, "data_local").mo
    /\ \A e \in GoldEntries :
          /\ e[1] = <<e[2]["ano"], e[2]["mes"], e[2]["municipio"]>>
          /\ \E k \in 1..Len(HourlyRows) :
                /\ StationToken(HourlyRows[k]["municipio"]) = e[2]["municipio"]
                /\ CalendarDate(HourlyRows[k]) = e[2]["data_local"]
                /\ HourlyRows[k]["timestamp_local"].y = e[2]["ano"]
                /\ HourlyRows[k]["timestamp_local"].mo = e[2]["mes"]

\* C24 witness: an hourly row of 23:00 local time of 2023-01-31, stored in
\* the Silver partition of February (its UTC month), was aggregated and
\* written to the Gold partition (2023, 1, A_B) with that date.
C24_Witness ==
    /\ last.stage = "main_gold"
    /\ last.wrote
    /\ \E k \in 1..Len(HourlyRows) :
          /\ HourlyRows[k]["partition_month"] = 2
          /\ HourlyRows[k]["timestamp_local"] = [y |-> 2023, mo |-> 1, d |-> 31, h |-> 23, mi |-> 0]
    /\ \E e \in GoldEntries :
          /\ e[1] = <<2023, 1, StationABNorm>>
          /\ e[2]["data_local"] = [y |-> 2023, mo |-> 1, d |-> 31]

\* ------------------------------------------------------------------------
\* C25: a Gold write adds, a Silver write replaces
\* ------------------------------------------------------------------------

\* The step is a call that reached the Gold writer, or the Silver writer.
GoldWriteStep ==
    /\ last'.stage \in {"main_gold", "write_gold_dataset"}
    /\ (pc = "idle" /\ pc' = "idle") \/ pc = "gold"
    /\ last'.wrote

SilverWriteStep ==
    /\ last'.stage \in {"main_silver", "write_silver_dataset"}
    /\ (pc = "idle" /\ pc' = "idle") \/ pc = "silver"
    /\ last'.wrote

\* The rows of the sequence rows whose partition columns have the values
\* of the key p, for the Gold and for the Silver dataset.
RowsOfGoldKey(rows, p) ==
    SelectSeq(rows, LAMBDA c : <<c["ano"], c["mes"], c["municipio"]>> = p)

RowsOfSilverKey(rows, p) ==
    SelectSeq(rows, LAMBDA c : <<c["partition_year"], c["partition_month"]>> = p)

\* The rows of a table, without index.
RowCells(t) == <<>> \o [i \in 1..Len(t.rows) |-> t.rows[i].cells]

\* The files of the partition p of a dataset; none when there is no such
\* partition.
FilesOf(store, p) == IF p \in DOMAIN store.parts THEN store.parts[p] ELSE <<>>

\* Every file of the Gold dataset stays where it is, with its rows.
GoldFilesKept ==
    \A p \in DOMAIN gold_store.parts :
        /\ p \in DOMAIN gold_store'.parts
        /\ Len(gold_store'.parts[p]) >= Len(gold_store.parts[p])
        /\ \A f \in 1..Len(gold_store.parts[p]) :
              gold_store'.parts[p][f] = gold_store.parts[p][f]

\* C25: no step removes or changes a file of the Gold dataset, so every
\* row a Gold run wrote stays stored; a Gold write adds, to each partition
\* of the table it was handed, one file with the rows of that partition
\* after the files already there.  A Silver write leaves in each partition
\* of its table exactly one file, with the rows of that table, whatever the
\* partition held before, and leaves the other partitions as they were.
C25_GoldAddsSilverReplaces ==
    [][ /\ GoldFilesKept
        /\ GoldWriteStep =>
              \A p \in DOMAIN gold_store'.parts :
                  gold_store'.parts[p] =
                     IF RowsOfGoldKey(RowCells(last'.table), p) = <<>>
                     THEN FilesOf(gold_store, p)
                     ELSE FilesOf(gold_store, p)
                             \o <<RowsOfGoldKey(RowCells(last'.table), p)>>
        /\ SilverWriteStep =>
              \A p \in DOMAIN silver_store'.parts :
                  silver_store'.parts[p] =
                     IF RowsOfSilverKey(RowCells(last'.arg), p) = <<>>
                     THEN FilesOf(silver_store, p)
                     ELSE <<RowsOfSilverKey(RowCells(last'.arg), p)>>
      ]_vars

\* C25 witness: after two runs of the pipeline a partition of the Gold
\* dataset holds the files of both Gold runs, while the Silver partition,
\* written twice, holds one file.
C25_Witness ==
    /\ last.stage = "main_gold"
    /\ last.wrote
    /\ runs = 2
    /\ Len(trace) >= 3
    /\ \E p \in DOMAIN gold_store.parts : Len(gold_store.parts[p]) = 2
    /\ DOMAIN silver_store.parts # {}
    /\ \A q \in DOMAIN silver_store.parts : Len(silver_store.parts[q]) = 1

\* ------------------------------------------------------------------------
\* C26: the table of the caller
\* ------------------------------------------------------------------------

\* The step is a call of aggregate_to_gold on the loaded table df_silver.
AggregateStep == last.stage = "load_silver_data" /\ last'.stage = "aggregate_to_gold"

\* The step is a call of write_gold_dataset on the table df_gold.
WriteGoldStep ==
    /\ last'.stage = "write_gold_dataset"
    /\ runs' = runs + 1
    /\ last'.arg = df_gold

\* C26: a call of aggregate_to_gold leaves the table it was given as it
\* was, and so does a call of write_gold_dataset: the caller's table has
\* the same columns and the same cells after the call as before.
C26_CallerTableUnchanged ==
    [][ /\ AggregateStep => df_silver' = df_silver
        /\ WriteGoldStep => df_gold' = df_gold ]_vars

\* ------------------------------------------------------------------------
\* C27: no source column of any metric
\* ------------------------------------------------------------------------

\* The hourly table has the station column and no source column of a metric.
NoSourceColumn ==
    /\ "municipio" \in silver_store.columns
    /\ \A m \in DeclaredMetrics : m[2] \notin silver_store.columns

\* C27: when the hourly table has no source column of any metric,
\* aggregate_to_gold does not raise and returns a table without rows and
\* without columns; main_gold then does not call the writer, leaves the
\* Gold dataset as it was (nothing was ever written to it) and returns
\* normally.
C27_NoSourceNoOutput ==
    NoSourceColumn =>
        /\ ReachedAggregate =>
              /\ ~last.transform_raised
              /\ df_gold.rows = <<>> /\ df_gold.columns = {}
        /\ last.stage = "main_gold" /\ last.transformed =>
              /\ ~last.writer_called
              /\ ~last.wrote
              /\ last.result = "returned"
        /\ gold_store.parts = NoParts

\* C27 witness: main_gold loaded hourly rows that have a station and no
\* source column, aggregated them to nothing, wrote nothing and returned.
C27_Witness ==
    /\ NoSourceColumn
    /\ last.stage = "main_gold"
    /\ last.loaded = "ok"
    /\ last.transformed
    /\ Len(HourlyRows) > 0
    /\ ~last.transform_raised
    /\ ~last.writer_called
    /\ last.result = "returned"
    /\ df_gold.rows = <<>>

\* ------------------------------------------------------------------------
\* C28: a group without any present value
\* ------------------------------------------------------------------------

\* The metrics that are sums, and the other named metrics.
SumMetrics == {m \in DeclaredMetrics : m[3] = "sum"}

OtherMetrics == DeclaredMetrics \ SumMetrics

\* C28: in a returned row whose group has no present value in the source
\* column of a metric, the metric is 0 when it is a sum (daily
\* precipitation, daily radiation) and absent when it is a maximum, a
\* minimum or a mean; the table main_gold hands to storage then holds the
\* decimal 0 for the sums and no value for the others.
C28_EmptyGroupSumIsZero ==
    /\ AggregatedOk =>
          \A i \in 1..Len(df_gold.rows) :
              \A m \in DeclaredMetrics :
                  m[2] \in silver_store.columns /\ GroupValues(i, m[2]) = {} =>
                      IF m \in SumMetrics
                      THEN df_gold.rows[i].cells[m[1]] = Num(0)
                      ELSE df_gold.rows[i].cells[m[1]] = NaN
    /\ HandedOver =>
          \A i \in 1..Len(last.table.rows) :
              \A m \in DeclaredMetrics :
                  m[2] \in silver_store.columns /\ GroupValues(i, m[2]) = {} =>
                      IF m \in SumMetrics
                      THEN /\ GivenCell(i, m[1]) = Num(0)
                           /\ DecimalEquals(StoredCell(i, m[1]), 0)
                      ELSE /\ GivenCell(i, m[1]) = NaN
                           /\ StoredCell(i, m[1]) = None

\* C28 witness: main_gold wrote a row of a group whose hourly rows have no
\* measurement at all: precipitation and radiation are 0, the maximum, the
\* minimum and the means are absent.
C28_Witness ==
    /\ HandedOver
    /\ last.wrote
    /\ SourceColumns \subseteq silver_store.columns
    /\ \E i \in 1..Len(last.table.rows) :
          /\ \A m \in DeclaredMetrics : GroupValues(i, m[2]) = {}
          /\ \E k \in 1..Len(HourlyRows) : PairOf(HourlyRows[k]) = GoldPair(i)
          /\ \A m \in SumMetrics : DecimalEquals(StoredCell(i, m[1]), 0)
          /\ \A m \in OtherMetrics : StoredCell(i, m[1]) = None

\* ------------------------------------------------------------------------
\* C29: end of day and start of day of one date
\* ------------------------------------------------------------------------

\* Input rows i and j are of one source file and one date, one with the
\* hour 2400 and the other with the hour 0000.
EndAndStartOfDay(i, j) ==
    /\ bronze_df.rows[i].cells["source_file"] = bronze_df.rows[j].cells["source_file"]
    /\ bronze_df.rows[i].cells["data"] = bronze_df.rows[j].cells["data"]
    /\ bronze_df.rows[i].cells["data"] \notin BadDates
    /\ {bronze_df.rows[i].cells["hora_utc"], bronze_df.rows[j].cells["hora_utc"]}
          = {Hour2400, HourZero}

\* The output rows of the file of input row i at 00:00 UTC of its date.
RowsAtMidnightOf(i) ==
    {o \in SilverRows :
        /\ o.cells["source_file"] = bronze_df.rows[i].cells["source_file"]
        /\ Minutes(o.cells["timestamp_local"]) + 60 * TARGET_TIMEZONE
              = Minutes(MidnightOf(i))}

\* C29: of two input rows of one source file and one date, one with hour
\* '2400' and one with hour '0000', the later one in input order is not in
\* the output; the output has exactly one row of that file at 00:00 UTC of
\* the date, and it is the earlier of the two unless a still earlier row
\* of the file has that same instant.
C29_EndOfDayAliased ==
    LET st == Stamps IN
    Done =>
      \A i, j \in InputIdx :
        i < j /\ EndAndStartOfDay(i, j) =>
           /\ KeyOf(st[i]) = KeyOf(st[j])
           /\ \A o \in SilverRows : o.index + 1 # j
           /\ Cardinality(RowsAtMidnightOf(i)) = 1
           /\ (\A k \in 1..(i - 1) : KeyOf(st[k]) # KeyOf(st[i]))
                 => \E o \in RowsAtMidnightOf(i) : o.index + 1 = i

\* C29 witness: the rows '2400 UTC' and '0000 UTC' of 2023/01/01 of one
\* file, in this order: one duplicate was removed and the output holds the
\* first row only, at 21:00 local time of 2022-12-31.
C29_Witness ==
    /\ Done
    /\ Len(bronze_df.rows) = 2
    /\ EndAndStartOfDay(1, 2)
    /\ bronze_df.rows[1].cells["hora_utc"] = Hour2400
    /\ log.duplicates = 1
    /\ Len(silver_df.rows) = 1
    /\ silver_df.rows[1].index = 0
    /\ silver_df.rows[1].cells["timestamp_local"] = At(2022, 12, 31, 21, 0)

\* ------------------------------------------------------------------------
\* C30: the workers of the Bronze ingestion
\* ------------------------------------------------------------------------

\* The years of the run and the tasks main has taken from as_completed.
Years == DOMAIN future_to_year

AllCollected == \A y \in Years : future_to_year[y].at = "collected"

\* The years that give a table, and those of them whose write succeeds.
YearsWithTable == {y \in Years : year_source[y] \in {"written", "write_failed"}}

YearsWritten == {y \in Years : year_source[y] = "written"}

\* The records of a year: the rows of its partition as the year writes it.
RecordsOfYear(y) ==
    [i \in 1..(y - CURRENT_YEAR + MaxYears) |->
        [c \in {"Hora UTC", "source_file", "partition_year"} |->
            CASE c = "Hora UTC"       -> i - 1
              [] c = "source_file"    -> <<"INMET_A320_", y>>
              [] c = "partition_year" -> y]]

RECURSIVE SumOfRecords(_)
SumOfRecords(ys) ==
    IF ys = {} THEN 0
    ELSE LET y == CHOOSE x \in ys : TRUE
         IN  Len(RecordsOfYear(y)) + SumOfRecords(ys \ {y})

\* The files of the partition of year y in a Bronze dataset.
BronzeFiles(store, y) == IF <<y>> \in DOMAIN store.parts THEN store.parts[<<y>>] ELSE <<>>

\* A step changes the partition of a year only if it is the write of that
\* year's own worker.
OwnPartitionOnly ==
    \A y \in Years :
        BronzeFiles(bronze_dataset', y) # BronzeFiles(bronze_dataset, y) =>
            /\ future_to_year[y].at = "write"
            /\ future_to_year'[y].at = "done"

\* C30: in every interleaving of the workers of main, at most MAX_WORKERS
\* run at once and process_year is called at most once for a year; a step
\* changes the partition of a year only when it is the write of that
\* year's worker; and when main has collected every year, process_year was
\* called exactly once for each, the partition of a year that was written
\* holds exactly that year's records, the partition of every other year is
\* as it was before the run, and the total is the number of records of the
\* years that gave a table: what the run leaves depends on what each year
\* gave and not on the order in which the years finish.  A year whose
\* download failed, that gave no table or whose worker raised adds 0.
C30_YearsIndependent ==
    /\ [](Cardinality({y \in Years : future_to_year[y].at \in {"download", "read", "write"}})
             <= MAX_WORKERS)
    /\ [](\A y \in Years : future_to_year[y].calls <= 1)
    /\ [][OwnPartitionOnly]_vars
    /\ [](AllCollected =>
             /\ \A y \in Years : future_to_year[y].calls = 1
             /\ \A y \in YearsWritten : BronzeFiles(bronze_dataset, y) = <<RecordsOfYear(y)>>
             /\ \A y \in Years \ YearsWritten :
                   BronzeFiles(bronze_dataset, y) = BronzeFiles(bronze_before, y)
             /\ DOMAIN bronze_dataset.parts \subseteq {<<y>> : y \in Years}
             /\ total_records_ingested = SumOfRecords(YearsWithTable))

\* C30 witness: main has collected three years, one written over the file
\* of an earlier run, one whose download failed and one whose worker
\* raised; the first has its records in its partition, the others still
\* have the earlier file, and the total is the records of the first.
C30_Witness ==
    /\ AllCollected
    /\ bronze_before # EmptyStore
    /\ \E a, b, c \in Years :
          /\ year_source[a] = "written"
          /\ year_source[b] = "download_failed"
          /\ year_source[c] = "raised"
          /\ BronzeFiles(bronze_dataset, a) = <<RecordsOfYear(a)>>
          /\ BronzeFiles(bronze_dataset, b) = BronzeFiles(bronze_before, b)
          /\ BronzeFiles(bronze_dataset, b) # <<>>
          /\ total_records_ingested = Len(RecordsOfYear(a))
          /\ total_records_ingested > 0

====
